---- MODULE Spec2Model ----
(***************************************************************************)
(* A model of the streaming plan executor of QLPlan.actor.cpp: leaf scans, *)
(* asynchronous order-preserving stages, the PlanCheckpoint split-bound    *)
(* protocol and the wrappers that own a transaction (NonIsolated, Retry).  *)
(*                                                                         *)
(* Flow delivers a value sent on a PromiseStream to a waiting actor        *)
(* synchronously, so "an upstream task sends a document" and "the          *)
(* downstream task runs its handler up to its next wait" are one step.     *)
(* The suspension points of the model are the ones of the code: a read of  *)
(* the key-value store, a permit take on an exhausted lock, a pending      *)
(* per-document future, a timer, a commit.                                 *)
(***************************************************************************)
EXTENDS Integers, Sequences, FiniteSets, TLC

VARIABLES
    plan,        \* the plan tree under the wrapper (fixed by Init)
    nDocs,       \* number of documents of the collection (fixed by Init)
    scans,       \* PlanCheckpoint::scans of the inner checkpoint
    scansAdded,  \* PlanCheckpoint::scansAdded
    ops,         \* PlanCheckpoint::ops (names of the registered tasks)
    states,      \* PlanCheckpoint::states: the resumable counters of the operators
    stateAdded,  \* PlanCheckpoint::stateAdded
    permits,     \* free permits of the inner checkpoint's flowControlLock
    scanPc,      \* position of the leaf task
    scanID,      \* `scanID` of the leaf task
    kvs,         \* the leaf's GenFutureStream<KeyValue>: keys not yet read
    curKV,       \* `kv` of the leaf task (the key it holds while it waits)
    lastKey,     \* `lastKey` of doPKScan / toDocInfo
    lastPK,      \* `lastPK` of doPKScan
    upperBound,  \* `upperBound` of IndexScanPlan::execute (dedup's bound)
    futures,     \* per stage: its Deque of (document, future)
    stStatus,    \* per stage: position of the stage task
    docs,        \* the subplan's final output stream, as seen by the wrapper
    outLog,      \* history: scan keys sent on each operator's output
    wPc,         \* position of the wrapper task
    doc,         \* `doc` of the wrapper: the document it holds
    outerPermits,\* free permits of the outer checkpoint's lock
    output,      \* history: documents sent on the wrapper's output
    nTransactions, \* `nTransactions`: transactions the wrapper has left behind (capped)
    committingDocs, \* `committingDocs` (doNonIsolatedRW) / `committing` (doRetry)
    bufferedDocs,  \* `bufferedDocs` (doNonIsolatedRW) / `ret` (doRetry)
    finished,      \* `finished` of doNonIsolatedRW
    staged,        \* documents whose changes are staged in the wrapper's transaction
    committed,     \* history: documents whose changes a successful commit made durable
    lastCommit,    \* history: outcome of the wrapper's last commit
    source,        \* `source` of FilterPlan::construct_filter_plan
    filter,        \* `filter` of FilterPlan::construct_filter_plan
    cx,            \* `cx`: the indexes the collection has
    pdPlan,        \* the plan construct_filter_plan returned
    opKind,        \* the update operator that runs: doUpdate, projectAndUpdate, findAndModify
    limit,         \* `limit` of doUpdate
    upsertOp,      \* is an `upsertOp` provided?
    projectNew,    \* `projectNew` of projectAndUpdate / findAndModify
    input,         \* the operator's input stream: documents its subplan has yet to yield
    uPc,           \* position of the update operator's task
    count,         \* `count` of doUpdate: checkpoint->getIntState(0)
    uFutures,      \* `futures` of doUpdate
    firstDoc,      \* `firstDoc` of projectAndUpdate / findAndModify
    any,           \* `any` of projectAndUpdate / findAndModify
    proj,          \* `proj`: the projection that was computed
    updated,       \* history: documents updateOp->update() was called on
    inserted,      \* history: number of upsertOp->insert() calls
    uOutput,       \* history: what the operator sent on its output
    uPermits,      \* free permits of the flowControlLock of the operator's checkpoint
    uHeld,         \* documents of the operator's output the consumer has not finished
    uTransactions, \* `nTransactions` of findAndModify (capped)
    cancelLog,     \* history: the errors sent on operators' outputs by the last stop()
    isReadOnly,    \* `isReadOnly` of NonIsolatedPlan: doNonIsolatedRO or doNonIsolatedRW
    metadataVersion, \* `metadataVersion` of the wrapper: the version it has accepted
    storeMeta,     \* the collection's metadata in the store: version, and for the
                   \* last change whether a directory moved and whether the plan allows it
    argOrder,      \* which argument of the call of doUnion the build evaluates first
    leafID,        \* per leaf of a UnionPlan tree: its `scanID`
    leafBounds,    \* per leaf: the getBounds(scanID) it read in execute
    leafLast,      \* per leaf: `lastKey` of its doPKScan
    leafPc,        \* per leaf: position of its doPKScan
    firstID,       \* history: the scanID each leaf had in the first execution
    ownSplit,      \* history: the split key each leaf left at the last stopAndCheckpoint
                   \* (before the first one, the begin of a new checkpoint's bounds)
    restA,         \* doUnion: what the subplan of `a` has yet to send
    restB,         \* doUnion: what the subplan of `b` has yet to send
    streamA,       \* doUnion: items sent on `a` that no waitAndForward has taken
    streamB,       \* doUnion: items sent on `b` that no waitAndForward has taken
    aFuture,       \* `aFuture` of doUnion
    bFuture,       \* `bFuture` of doUnion
    aOpen,         \* `aOpen` of doUnion
    bOpen,         \* `bOpen` of doUnion
    unionOutput,   \* history: what doUnion sent on its output
    unionPc,       \* position of doUnion
    sentA,         \* history: the documents the subplan of `a` has sent
    sentB,         \* history: the documents the subplan of `b` has sent
    indexes,       \* the index descriptors stored in the indexes collection of the namespace
    indexObj,      \* `indexObj` of doIndexInsert
    indexObjs,     \* `indexObjs` of doIndexInsert
    iiPc,          \* position of doIndexInsert
    iiOutput,      \* history: what doIndexInsert sent on its output
    bumps,         \* history: the calls of bumpMetadataVersion in this execution
    refs,          \* the counter each getIntState call of this execution returned (0: dangling)
    nFed,          \* documents doUpdate has received in this execution
    nSkipped,      \* documents doSkip has received in this execution
    skipPc         \* position of doSkip: in its while loop or in the loop after it

\* the variables of the executions of a plan
execVars == <<plan, nDocs, scans, scansAdded, ops, states, stateAdded, permits, scanPc, scanID, kvs,
          curKV, lastKey, lastPK, upperBound, futures, stStatus, docs, outLog,
          wPc, doc, outerPermits, output, nTransactions, committingDocs,
          bufferedDocs, finished, staged, committed, lastCommit>>

\* the variables of the construction of a plan
pureVars == <<source, filter, cx, pdPlan>>

\* the variables of an update operator
updVars == <<opKind, limit, upsertOp, projectNew, input, uPc, count, uFutures, firstDoc, any,
             proj, updated, inserted, uOutput, uPermits, uHeld, uTransactions>>

\* the variables of the metadata check at a segment boundary
metaVars == <<isReadOnly, metadataVersion, storeMeta>>

\* the variables of the executions of a UnionPlan tree
unionVars == <<argOrder, leafID, leafBounds, leafLast, leafPc, firstID, ownSplit>>

\* the variables of doUnion
mergeVars == <<restA, restB, streamA, streamB, aFuture, bFuture, aOpen, bOpen, unionOutput,
               unionPc, sentA, sentB>>

\* the variables of a plan whose operators hold two resumable counters
ctrVars == <<refs, nFed, nSkipped, skipPc>>

\* the variables of doIndexInsert and the indexes collection
idxVars == <<indexes, indexObj, indexObjs, iiPc, iiOutput, bumps>>

vars == <<ctrVars, idxVars, execVars, pureVars, updVars, cancelLog, metaVars, unionVars, mergeVars>>

\* the variables only the wrappers that own a transaction use
txnVars == <<committingDocs, bufferedDocs, finished, staged, committed, lastCommit>>

-----------------------------------------------------------------------------
(* Bounds *)

MaxDocs == 3
FLOW_CONTROL_LOCK_PERMITS == 2
MaxSegs == 3

-----------------------------------------------------------------------------
(* Keys: byte strings under bytewise lexicographic order *)

KeyFF == <<255>>
KeyZero == <<0>>
NoKey == <<>>

KeyLT(a, b) ==
    \E i \in 1..Len(b) :
        /\ i <= Len(a) + 1
        /\ \A j \in 1..(i - 1) : a[j] = b[j]
        /\ (i = Len(a) + 1 \/ a[i] < b[i])

KeyLE(a, b) == a = b \/ KeyLT(a, b)

KeyMax(a, b) == IF KeyLT(a, b) THEN b ELSE a

KeyMin(a, b) == IF KeyLT(b, a) THEN b ELSE a

startsWith(k, p) == Len(p) <= Len(k) /\ SubSeq(k, 1, Len(p)) = p

keyAfter(k) == Append(k, 0)

strincDefined(s) == \E i \in 1..Len(s) : s[i] # 255

strinc(s) ==
    LET n == CHOOSE i \in 1..Len(s) :
                 s[i] # 255 /\ \A j \in (i + 1)..Len(s) : s[j] = 255
    IN  [SubSeq(s, 1, n) EXCEPT ![n] = @ + 1]

\* A key is a sequence of encoded items; an encoded item is one byte here.
decode_item(k, i) == SubSeq(k, i + 1, i + 1)

decode_item_rev(k, i) == SubSeq(k, Len(k) - i, Len(k) - i)

RECURSIVE SortKeys(_)
SortKeys(S) ==
    IF S = {} THEN <<>>
    ELSE LET m == CHOOSE x \in S : \A y \in S : KeyLE(x, y)
         IN  <<m>> \o SortKeys(S \ {m})

-----------------------------------------------------------------------------
(* The collection: documents 1..nDocs, their cells and their index entries *)

PKOf(i) == 10 * i

PKs(n) == {PKOf(i) : i \in 1..n}

\* every document has two cells: its header <<pk>> and one field <<pk, 1>>
TableKeys(n) == SortKeys({<<pk>> : pk \in PKs(n)} \cup {<<pk, 1>> : pk \in PKs(n)})

\* the values of the indexed (array) field of a document
IndexVals(pk) == IF pk = 10 THEN {1, 3} ELSE IF (pk \div 10) % 2 = 0 THEN {2} ELSE {3}

\* an index entry is encode(value) ++ encode(primary key)
IndexKeys(n) == SortKeys({<<v, pk>> : v \in 1..3, pk \in PKs(n)} \cap
                         UNION {{<<v, pk>> : v \in IndexVals(pk)} : pk \in PKs(n)})

\* the values of the second indexed field, b, of a document
BVals(pk) == IF pk = 20 THEN {1, 2} ELSE {((pk \div 10) % 2) + 1}

\* an entry of the compound index on (a, b): encode(a) ++ encode(b) ++ encode(pk)
CompoundKeys(n) ==
    SortKeys(UNION {{<<va, vb, pk>> : va \in IndexVals(pk), vb \in BVals(pk)} : pk \in PKs(n)})

getDescendants(all, lo, hi) == SelectSeq(all, LAMBDA k : KeyLE(lo, k) /\ KeyLT(k, hi))

-----------------------------------------------------------------------------
(* Documents in streams *)

None == <<254, 254>>

ScanReturnedContext(pk, id, scanKey) == [pk |-> pk, sid |-> id, key |-> scanKey]

EndOfStream == [pk |-> 0, sid |-> -9, key |-> NoKey]

NoDoc == [pk |-> 0, sid |-> -8, key |-> NoKey]

-----------------------------------------------------------------------------
(* Plans *)

\* IndexInfo of an index scan: the simple index on a unless the plan names (a, b)
indexOf(p) == IF "index" \in DOMAIN p THEN p.index ELSE "a"

\* the operator tasks between the leaf and the plan's output, inputs first
StageKinds(p) == IF p.leaf = "index"
                    /\ ~(p.begin # None /\ p.begin = p.end /\ indexOf(p) = "a")
                 THEN <<"dedup">> \o p.stages
                 ELSE p.stages

NStages == Len(StageKinds(plan))

isPointLookup(p) == p.leaf = "pk" /\ p.begin # None /\ p.end # None /\ p.begin = p.end

\* the predicate of FilterPlan
predicate(d) == d.pk # 20

\* a test that takes the largest value of the document, below the bound or not
simpleWouldBeLast_unbounded(d, indexUpperBound) ==
    LET old_key_parts == {<<v>> : v \in IndexVals(d.pk)}
        last == CHOOSE s \in old_key_parts : \A t \in old_key_parts : KeyLE(t, s)
    IN  IF Cardinality(old_key_parts) = 1 THEN TRUE ELSE startsWith(d.key, last)

\* simpleWouldBeLast: is the entry the document came from its last one below the bound?
simpleWouldBeLast(d, indexUpperBound) ==
    LET old_key_parts == {<<v>> : v \in IndexVals(d.pk)}
        below == {s \in old_key_parts : KeyLT(s, indexUpperBound)}
        last == IF below = {} THEN NoKey
                ELSE CHOOSE s \in below : \A t \in below : KeyLE(t, s)
    IN  IF Cardinality(old_key_parts) = 1 THEN TRUE ELSE startsWith(d.key, last)

\* compoundWouldBeLast: the same test on the cartesian product of the values
compoundWouldBeLast(d, indexUpperBound) ==
    LET old_key_parts == {<<va, vb>> : va \in IndexVals(d.pk), vb \in BVals(d.pk)}
        below == {s \in old_key_parts : KeyLT(s, indexUpperBound)}
        last == IF below = {} THEN NoKey
                ELSE CHOOSE s \in below : \A t \in below : KeyLE(t, s)
    IN  IF Cardinality(old_key_parts) = 1 THEN TRUE ELSE startsWith(d.key, last)

\* does a stage forward the document (TRUE) or discard it (FALSE)?
Pass(kind, d, ub) ==
    CASE kind = "filter" -> predicate(d)
      [] kind = "dedup" -> IF indexOf(plan) = "a" THEN simpleWouldBeLast(d, ub)
                           ELSE compoundWouldBeLast(d, ub)
      [] OTHER -> TRUE

-----------------------------------------------------------------------------
(* PlanCheckpoint *)

ScanCheckpoint == [begin |-> NoKey, end |-> KeyFF, split |-> KeyFF]

RECURSIVE resize(_, _)
resize(sc, n) == IF Len(sc) >= n THEN sc ELSE resize(Append(sc, ScanCheckpoint), n)

\* PlanCheckpoint::addScan: the scans after the call (the id returned is scansAdded)
addScan(sc, added) == IF added >= Len(sc) THEN resize(sc, added + 1) ELSE sc

getBounds(sc, whichScan) ==
    IF whichScan >= Len(sc) THEN [begin |-> NoKey, end |-> KeyFF]
    ELSE [begin |-> sc[whichScan + 1].begin, end |-> sc[whichScan + 1].end]

\* checkpoint->splitBound(whichScan) = k
splitBound(sc, whichScan, k) == [sc EXCEPT ![whichScan + 1].split = k]

-----------------------------------------------------------------------------
(* The dataflow between tasks.  A pipeline value P collects the variables  *)
(* a send can change: f (futures), s (stStatus), d (docs), p (permits),    *)
(* log (outLog), st (states).  Operator 0 is the leaf, operators 1..n the  *)
(* stages, and the input of "operator n+1" is the plan's output stream.    *)

Pipe == [f |-> futures, s |-> stStatus, d |-> docs, p |-> permits, log |-> outLog,
         st |-> states]

SetPipe(P) ==
    /\ futures' = P.f
    /\ stStatus' = P.s
    /\ docs' = P.d
    /\ permits' = P.p
    /\ outLog' = P.log
    /\ states' = P.st

\* `leftToSkip` of doSkip: the reference getIntState returned, states.back().split
\* (a plan of the model has at most one operator with a counter)
leftToSkip(P) == P.st[Len(P.st)].split

\* operator k-1 does output.send(d): operator k receives it at once.  doSkip
\* releases the document's permit while leftToSkip != 0 and sends it on at once
\* afterwards; every other stage pushes it on its queue with a pending future
RECURSIVE Send(_, _, _)
Send(P, k, d) ==
    LET P1 == [P EXCEPT !.log[k] = Append(@, d.key)]
    IN  IF k > Len(P.f)
        THEN [P1 EXCEPT !.d = Append(@, d)]
        ELSE IF StageKinds(plan)[k] = "skip"
        THEN IF leftToSkip(P) # 0
             THEN [P1 EXCEPT !.st[Len(P.st)].split = @ - 1, !.p = @ + 1]
             ELSE Send(P1, k + 1, d)
        ELSE [P1 EXCEPT !.f[k] = Append(@, [doc |-> d, ready |-> FALSE])]

\* operator k-1 does output.sendError(end_of_stream()): operator k leaves its
\* loop, and if it holds nothing it ends too
RECURSIVE SendEOS(_, _)
SendEOS(P, k) ==
    IF k > Len(P.f) THEN [P EXCEPT !.d = Append(@, EndOfStream)]
    ELSE IF P.f[k] = <<>> THEN SendEOS([P EXCEPT !.s[k] = "done"], k + 1)
    ELSE [P EXCEPT !.s[k] = "drain"]

\* a stage that takes the first entry of its queue whose future is ready
front_firstReady(q) ==
    IF \E i \in 1..Len(q) : q[i].ready
    THEN CHOOSE i \in 1..Len(q) : q[i].ready /\ \A j \in 1..(i - 1) : ~q[j].ready
    ELSE 1

\* futures.front(): the position in the queue of the entry a stage waits on and
\* takes
front(q) == 1

\* futures.pop_front(), the front being at position i
pop_front(q, i) == SubSeq(q, 1, i - 1) \o SubSeq(q, i + 1, Len(q))

\* stage k, woken because the future at the head of its queue is ready:
\* forward or discard the head, and again while the head is ready
RECURSIVE PopReady(_, _, _, _)
PopReady(P, k, kinds, ub) ==
    IF P.f[k] # <<>> /\ P.f[k][front(P.f[k])].ready
    THEN LET d == P.f[k][front(P.f[k])].doc
             P1 == [P EXCEPT !.f[k] = pop_front(@, front(P.f[k]))]
             P2 == IF Pass(kinds[k], d, ub) THEN Send(P1, k + 1, d)
                   ELSE [P1 EXCEPT !.p = @ + 1]
         IN  PopReady(P2, k, kinds, ub)
    ELSE IF P.f[k] = <<>> /\ P.s[k] = "drain"
    THEN SendEOS([P EXCEPT !.s[k] = "done"], k + 1)
    ELSE P

-----------------------------------------------------------------------------
(* Plan::execute: synchronous construction of the tasks of the subplan     *)

\* a leaf that forgets to intersect its range with getBounds(scanID).begin
lowerBoundOf_unclamped(p, b) ==
    IF p.begin # None THEN p.begin ELSE KeyZero

\* the key range a leaf reads: its own range intersected with getBounds(scanID)
lowerBoundOf(p, b) ==
    KeyMax(IF p.begin # None THEN p.begin ELSE KeyZero, b.begin)

\* an upper bound that is not raised to the lower bound
upperBoundOf_inverted(p, b) ==
    KeyMin(IF p.end # None THEN strinc(p.end) ELSE KeyFF, b.end)

upperBoundOf(p, b) ==
    KeyMax(lowerBoundOf(p, b),
           KeyMin(IF p.end # None THEN strinc(p.end) ELSE KeyFF, b.end))

StoreKeys(p, n) ==
    IF p.leaf = "index" THEN (IF indexOf(p) = "a" THEN IndexKeys(n) ELSE CompoundKeys(n))
    ELSE TableKeys(n)

\* `skip` of SkipPlan
SkipCount == 1

\* the number of operators of the plan that call getIntState
nCounters(p) == Cardinality({k \in 1..Len(StageKinds(p)) : StageKinds(p)[k] = "skip"})

\* PlanCheckpoint::getIntState(defaultValue), stateAdded being `added`: the states
\* after the call
getIntState(st, added, defaultValue) ==
    LET st1 == IF added = Len(st)
               THEN Append(st, [begin |-> defaultValue, split |-> defaultValue])
               ELSE st
    IN  [st1 EXCEPT ![Len(st1)].split = st1[Len(st1)].begin]

\* the states after the operators of the plan have called getIntState
statesOf(p, st, added) == IF nCounters(p) = 0 THEN st ELSE getIntState(st, added, SkipCount)

\* the pipeline right after the stage tasks have been created
FreshPipe(p, st, free) ==
    [f |-> [k \in 1..Len(StageKinds(p)) |-> <<>>],
     s |-> [k \in 1..Len(StageKinds(p)) |-> "run"],
     d |-> <<>>,
     p |-> free,
     log |-> [k \in 1..(Len(StageKinds(p)) + 1) |-> <<>>],
     st |-> st]

OpNames(p) == <<p.leaf>> \o StageKinds(p)

\* the document IndexInsertPlan emits for the index it created
IndexDoc == [pk |-> 90, sid |-> -1, key |-> NoKey]

\* IndexInsertPlan::execute: doIndexInsert runs through flowControlLock->take(1)
\* and waits for the metadata of the collection
executeIndexInsert(sc, st, added, stAdded, registered, free) ==
    /\ scans' = sc
    /\ scansAdded' = added
    /\ stateAdded' = stAdded
    /\ scanID' = -1
    /\ ops' = registered \o OpNames(plan)
    /\ kvs' = <<>>
    /\ curKV' = NoKey
    /\ lastKey' = NoKey
    /\ lastPK' = NoKey
    /\ upperBound' = KeyFF
    /\ IF free > 0
       THEN /\ scanPc' = "lookup"
            /\ SetPipe(FreshPipe(plan, st, free - 1))
       ELSE /\ scanPc' = "take"
            /\ SetPipe(FreshPipe(plan, st, free))

\* execute of the plans that read the collection
executeScan(sc, st, added, stAdded, registered, free) ==
    LET sc1 == addScan(sc, added)
        st1 == statesOf(plan, st, stAdded)
        b == getBounds(sc1, added)
        lo == lowerBoundOf(plan, b)
        hi == upperBoundOf(plan, b)
        inBounds == KeyLE(b.begin, plan.begin) /\ KeyLT(plan.begin, b.end)
    IN  /\ scans' = sc1
        /\ scansAdded' = added + 1
        /\ stateAdded' = stAdded + nCounters(plan)
        /\ scanID' = added
        /\ ops' = registered \o OpNames(plan)
        /\ curKV' = NoKey
        /\ lastKey' = NoKey
        /\ lastPK' = NoKey
        /\ upperBound' = hi
        /\ IF isPointLookup(plan)
           THEN /\ kvs' = <<>>
                /\ scanPc' = IF inBounds THEN "waitGet" ELSE "done"
                /\ SetPipe(IF inBounds THEN FreshPipe(plan, st1, free)
                           ELSE SendEOS(FreshPipe(plan, st1, free), 1))
           ELSE /\ kvs' = getDescendants(StoreKeys(plan, nDocs), lo, hi)
                /\ scanPc' = "waitKV"
                /\ SetPipe(FreshPipe(plan, st1, free))

\* subPlan->execute(checkpoint, tr) on the checkpoint with the scans sc, the
\* states st, the counters added and stAdded, the tasks registered, free permits
execute(sc, st, added, stAdded, registered, free) ==
    IF plan.leaf = "indexInsert"
    THEN executeIndexInsert(sc, st, added, stAdded, registered, free)
    ELSE executeScan(sc, st, added, stAdded, registered, free)

-----------------------------------------------------------------------------
(* Leaf tasks *)

\* doPKScan: TableScanPlan and the range form of PrimaryKeyLookupPlan
isPKScan == plan.leaf = "table" \/ (plan.leaf = "pk" /\ ~isPointLookup(plan))

\* doPKScan, woken by waitNext(kvs)
doPKScan_waitNext ==
    /\ isPKScan /\ scanPc = "waitKV" /\ kvs # <<>>
    /\ LET kv == Head(kvs)
           curPK == decode_item(kv, 0)
       IN  /\ kvs' = Tail(kvs)
           /\ IF curPK # lastPK
              THEN /\ lastPK' = curPK
                   /\ IF permits > 0
                      THEN /\ SetPipe(Send([Pipe EXCEPT !.p = @ - 1], 1,
                                           ScanReturnedContext(curPK[1], scanID, kv)))
                           /\ lastKey' = kv
                           /\ UNCHANGED <<scanPc, curKV>>
                      ELSE /\ scanPc' = "take"
                           /\ curKV' = kv
                           /\ UNCHANGED <<lastKey, futures, states, stStatus, docs, permits, outLog>>
              ELSE /\ lastKey' = kv
                   /\ UNCHANGED <<lastPK, scanPc, curKV, futures, states, stStatus, docs, permits, outLog>>
    /\ UNCHANGED <<ctrVars, idxVars, mergeVars, unionVars, metaVars, pureVars, updVars, cancelLog, txnVars, plan, nDocs, scans, scansAdded, stateAdded, ops, scanID, upperBound,
                   wPc, doc, outerPermits, output, nTransactions>>

\* a doPKScan that sends its document without waiting for the permit
doPKScan_take_unguarded ==
    /\ isPKScan /\ scanPc = "take"
    /\ SetPipe(Send([Pipe EXCEPT !.p = @ - 1], 1,
                    ScanReturnedContext(lastPK[1], scanID, curKV)))
    /\ lastKey' = curKV
    /\ curKV' = NoKey
    /\ scanPc' = "waitKV"
    /\ UNCHANGED <<ctrVars, idxVars, mergeVars, unionVars, metaVars, pureVars, updVars, cancelLog, txnVars, plan, nDocs, scans, scansAdded, stateAdded, ops, scanID, kvs, lastPK, upperBound,
                   wPc, doc, outerPermits, output, nTransactions>>

\* doPKScan, woken by outputLock->take(1)
doPKScan_take ==
    /\ isPKScan /\ scanPc = "take" /\ permits > 0
    /\ SetPipe(Send([Pipe EXCEPT !.p = @ - 1], 1,
                    ScanReturnedContext(lastPK[1], scanID, curKV)))
    /\ lastKey' = curKV
    /\ curKV' = NoKey
    /\ scanPc' = "waitKV"
    /\ UNCHANGED <<ctrVars, idxVars, mergeVars, unionVars, metaVars, pureVars, updVars, cancelLog, txnVars, plan, nDocs, scans, scansAdded, stateAdded, ops, scanID, kvs, lastPK, upperBound,
                   wPc, doc, outerPermits, output, nTransactions>>

\* toDocInfo, woken by waitNext(index_keys)
toDocInfo_waitNext ==
    /\ plan.leaf = "index" /\ scanPc = "waitKV" /\ kvs # <<>>
    /\ LET kv == Head(kvs)
       IN  /\ kvs' = Tail(kvs)
           /\ IF permits > 0
              THEN /\ SetPipe(Send([Pipe EXCEPT !.p = @ - 1], 1,
                                   ScanReturnedContext(decode_item_rev(kv, 0)[1], scanID, kv)))
                   /\ lastKey' = kv
                   /\ UNCHANGED <<scanPc, curKV>>
              ELSE /\ scanPc' = "take"
                   /\ curKV' = kv
                   /\ UNCHANGED <<lastKey, futures, states, stStatus, docs, permits, outLog>>
    /\ UNCHANGED <<ctrVars, idxVars, mergeVars, unionVars, metaVars, pureVars, updVars, cancelLog, txnVars, plan, nDocs, scans, scansAdded, stateAdded, ops, scanID, lastPK, upperBound,
                   wPc, doc, outerPermits, output, nTransactions>>

\* toDocInfo, woken by outputLock->take()
toDocInfo_take ==
    /\ plan.leaf = "index" /\ scanPc = "take" /\ permits > 0
    /\ SetPipe(Send([Pipe EXCEPT !.p = @ - 1], 1,
                    ScanReturnedContext(decode_item_rev(curKV, 0)[1], scanID, curKV)))
    /\ lastKey' = curKV
    /\ curKV' = NoKey
    /\ scanPc' = "waitKV"
    /\ UNCHANGED <<ctrVars, idxVars, mergeVars, unionVars, metaVars, pureVars, updVars, cancelLog, txnVars, plan, nDocs, scans, scansAdded, stateAdded, ops, scanID, kvs, lastPK, upperBound,
                   wPc, doc, outerPermits, output, nTransactions>>

\* doPKScan / toDocInfo: waitNext throws end_of_stream, which is sent on
was_end_of_stream ==
    /\ ~isPointLookup(plan) /\ scanPc = "waitKV" /\ kvs = <<>>
    /\ scanPc' = "done"
    /\ SetPipe(SendEOS(Pipe, 1))
    /\ UNCHANGED <<ctrVars, idxVars, mergeVars, unionVars, metaVars, pureVars, updVars, cancelLog, txnVars, plan, nDocs, scans, scansAdded, stateAdded, ops, scanID, kvs, curKV, lastKey,
                   lastPK, upperBound, wPc, doc, outerPermits, output, nTransactions>>

\* doIndexInsert, woken by getIndexesTransactionally and indexInsert->insert
doIndexInsert ==
    /\ plan.leaf = "indexInsert" /\ scanPc = "lookup"
    /\ scanPc' = "done"
    /\ IF plan.existing = "sameKey"
       THEN SetPipe(SendEOS(Pipe, 1))
       ELSE SetPipe(SendEOS(Send(Pipe, 1, IndexDoc), 1))
    /\ UNCHANGED <<ctrVars, idxVars, mergeVars, unionVars, metaVars, pureVars, updVars, cancelLog, txnVars, plan, nDocs, scans, scansAdded, stateAdded, ops, scanID, kvs, curKV, lastKey,
                   lastPK, upperBound, wPc, doc, outerPermits, output, nTransactions>>

\* doSinglePKLookup, woken by cx->cx->get(x)
doSinglePKLookup_get ==
    /\ isPointLookup(plan) /\ scanPc = "waitGet"
    /\ IF plan.begin[1] \in PKs(nDocs)
       THEN IF permits > 0
            THEN /\ SetPipe(SendEOS(Send([Pipe EXCEPT !.p = @ - 1], 1,
                                ScanReturnedContext(plan.begin[1], scanID, plan.begin)), 1))
                 /\ scanPc' = "done"
            ELSE /\ scanPc' = "take"
                 /\ UNCHANGED <<futures, states, stStatus, docs, permits, outLog>>
       ELSE /\ SetPipe(SendEOS(Pipe, 1))
            /\ scanPc' = "done"
    /\ UNCHANGED <<ctrVars, idxVars, mergeVars, unionVars, metaVars, pureVars, updVars, cancelLog, txnVars, plan, nDocs, scans, scansAdded, stateAdded, ops, scanID, kvs, curKV, lastKey,
                   lastPK, upperBound, wPc, doc, outerPermits, output, nTransactions>>

\* doSinglePKLookup, woken by flowControlLock->take(1)
doSinglePKLookup_take ==
    /\ isPointLookup(plan) /\ scanPc = "take" /\ permits > 0
    /\ SetPipe(SendEOS(Send([Pipe EXCEPT !.p = @ - 1], 1,
                   ScanReturnedContext(plan.begin[1], scanID, plan.begin)), 1))
    /\ scanPc' = "done"
    /\ UNCHANGED <<ctrVars, idxVars, mergeVars, unionVars, metaVars, pureVars, updVars, cancelLog, txnVars, plan, nDocs, scans, scansAdded, stateAdded, ops, scanID, kvs, curKV, lastKey,
                   lastPK, upperBound, wPc, doc, outerPermits, output, nTransactions>>

-----------------------------------------------------------------------------
(* Stage tasks: doFilter, deduplicateIndexStream, doProject, doFlushChanges *)

\* the future of the i-th queued document of stage k becomes ready; if it is
\* the head's, the stage wakes up
stage_ready(k, i) ==
    /\ k \in 1..Len(futures) /\ i \in 1..Len(futures[k])
    /\ stStatus[k] \in {"run", "drain"}
    /\ ~futures[k][i].ready
    /\ SetPipe(PopReady([Pipe EXCEPT !.f[k][i].ready = TRUE], k, StageKinds(plan), upperBound))
    /\ UNCHANGED <<ctrVars, idxVars, mergeVars, unionVars, metaVars, pureVars, updVars, cancelLog, txnVars, plan, nDocs, scans, scansAdded, stateAdded, ops, scanPc, scanID, kvs, curKV,
                   lastKey, lastPK, upperBound, wPc, doc, outerPermits, output,
                   nTransactions>>

-----------------------------------------------------------------------------
(* PlanCheckpoint::stop and stopAndCheckpoint                              *)

\* doPKScan's handler computes strinc(DataKey::decode_bytes(lastKey)[0]); with
\* an empty lastKey that reads item 0 of a key without items.  The outcome is
\* not defined: some key, or the failure of the process.
Abort == <<253, 253>>

UndefinedSplits == {NoKey, KeyZero, <<11>>, <<21>>, KeyFF, Abort}

splitIsUndefined == isPKScan /\ scanPc \in {"waitKV", "take"} /\ lastKey = NoKey

\* the cancellation handler of the leaf task, boundsWanted being true
cancel_leaf(sc, ub) ==
    IF scanPc \notin {"waitKV", "take", "waitGet"} THEN sc
    ELSE IF isPointLookup(plan) \/ plan.leaf = "indexInsert" THEN sc
    ELSE IF plan.leaf = "index" THEN splitBound(sc, scanID, keyAfter(lastKey))
    ELSE IF lastKey = NoKey THEN splitBound(sc, scanID, ub)
    ELSE splitBound(sc, scanID, strinc(decode_item(lastKey, 0)))

\* for (i = futures.size() - 1; i >= 0; i--) splitBound(scanId) = scanKey
RECURSIVE writeSplits(_, _, _)
writeSplits(sc, q, i) ==
    IF i = 0 THEN sc
    ELSE writeSplits(splitBound(sc, q[i].doc.sid, q[i].doc.key), q, i - 1)

\* the cancellation handler of stage k, boundsWanted being true
cancel_stage(sc, k, kind) ==
    IF stStatus[k] \notin {"run", "drain"} THEN sc
    ELSE IF kind \in {"filter", "dedup", "project"} THEN writeSplits(sc, futures[k], Len(futures[k]))
    ELSE sc

\* stop(): for (auto& op : ops) op.actors.cancel(), with boundsWanted true
RECURSIVE cancel_ops(_, _, _)
cancel_ops(sc, k, kinds) ==
    IF k > Len(kinds) THEN sc
    ELSE cancel_ops(cancel_stage(sc, k, kinds[k]), k + 1, kinds)

\* the scans of the checkpoint after stop() with boundsWanted true
stop(ub) == cancel_ops(cancel_leaf(scans, ub), 1, StageKinds(plan))

\* rv->scans[i].bounds = KeyRangeRef(scans[i].split, scans[i].bounds.end)
checkpointOf(stopped) ==
    [i \in 1..Len(stopped) |->
        [begin |-> stopped[i].split, end |-> stopped[i].end, split |-> KeyFF]]

\* the scans of the checkpoint stopAndCheckpoint() returns
\* a stop() whose handlers write their split keys whatever the flag says
stopUnder_unguarded(wanted, ub) == stop(ub)

\* the scans of the checkpoint after stop() (lines 1894-1909) while boundsWanted
\* has the value `wanted`: every handler writes under splitBoundWanted() only
stopUnder(wanted, ub) == IF wanted THEN stop(ub) ELSE scans

stopAndCheckpoint(ub) == checkpointOf(stopUnder(TRUE, ub))

\* a checkpoint whose counters start again from their old begin values
statesCheckpoint_restarting(st) ==
    [i \in 1..Len(st) |-> [begin |-> st[i].begin, split |-> st[i].begin]]

\* rest->states of stopAndCheckpoint: states.emplace_back(s.split) for every
\* counter of the stopped checkpoint
statesCheckpoint(st) ==
    [i \in 1..Len(st) |-> [begin |-> st[i].split, split |-> st[i].split]]

\* doSinglePKLookup's handler: dis.sendError(e) for every error, the
\* cancellation included
cancelErrorOfLeaf ==
    IF isPointLookup(plan) /\ scanPc \in {"waitGet", "take"}
    THEN <<[op |-> 1, error |-> "actor_cancelled"]>>
    ELSE <<>>

\* the handler of stage k: doFlushChanges does output.sendError(e) for every
\* error; doFilter, deduplicateIndexStream and doProject do not when cancelled
RECURSIVE cancelErrorsOfStages(_)
cancelErrorsOfStages(k) ==
    IF k > Len(StageKinds(plan)) \/ k > Len(stStatus) THEN <<>>
    ELSE (IF StageKinds(plan)[k] = "flush" /\ stStatus[k] \in {"run", "drain"}
          THEN <<[op |-> k + 1, error |-> "actor_cancelled"]>>
          ELSE <<>>) \o cancelErrorsOfStages(k + 1)

\* if (!ops.empty()) ops.back().output.sendError(operation_cancelled())
stopError ==
    IF ops # <<>> THEN <<[op |-> Len(ops), error |-> "operation_cancelled"]>> ELSE <<>>

\* the errors stop() makes the tasks and itself send, in the order of the sends
cancelErrors == cancelErrorOfLeaf \o cancelErrorsOfStages(1) \o stopError

\* the tasks of a stopped checkpoint are gone
tasks_gone ==
    /\ scanPc' = "dead"
    /\ kvs' = <<>>
    /\ curKV' = NoKey
    /\ lastKey' = NoKey
    /\ lastPK' = NoKey
    /\ futures' = <<>>
    /\ stStatus' = <<>>
    /\ docs' = <<>>
    /\ outLog' = <<>>
    /\ ops' = <<>>
    /\ scansAdded' = 0
    /\ stateAdded' = 0

-----------------------------------------------------------------------------
(* doNonIsolatedRO *)

\* the metadata version the wrapper holds once getMetadataVersion() has
\* answered: read at the start (line 706), and at a segment boundary found
\* equal to the one it holds
versionRead == IF wPc = "start" THEN storeMeta.version ELSE metadataVersion

\* subPlan->execute(innerCheckpoint, dtr), after the metadata version was read
\* (at a segment boundary: and found unchanged)
doNonIsolatedRO_execute ==
    /\ wPc \in {"start", "meta"}
    /\ wPc = "meta" => storeMeta.version = metadataVersion
    /\ metadataVersion' = versionRead
    /\ execute(scans, states, scansAdded, stateAdded, ops, permits)
    /\ wPc' = "choose"
    /\ nTransactions' = IF wPc = "meta" THEN nTransactions + 1 ELSE nTransactions
    /\ UNCHANGED <<ctrVars, idxVars, mergeVars, unionVars, isReadOnly, storeMeta, pureVars, updVars, cancelLog, txnVars, plan, nDocs, doc,
                   outerPermits, output>>

\* when(doc = waitNext(docs)), up to and possibly through outerLock->take(1)
doNonIsolatedRO_waitNext ==
    /\ wPc = "choose" /\ docs # <<>> /\ Head(docs) # EndOfStream
    /\ docs' = Tail(docs)
    /\ IF outerPermits > 0
       THEN /\ outerPermits' = outerPermits - 1
            /\ permits' = permits + 1
            /\ output' = Append(output, Head(docs))
            /\ UNCHANGED <<wPc, doc>>
       ELSE /\ wPc' = "take"
            /\ doc' = Head(docs)
            /\ UNCHANGED <<outerPermits, permits, output>>
    /\ UNCHANGED <<ctrVars, idxVars, mergeVars, unionVars, metaVars, pureVars, updVars, cancelLog, txnVars, plan, nDocs, scans, scansAdded, stateAdded, ops, scanPc, scanID, kvs, curKV,
                   lastKey, lastPK, upperBound, futures, states, stStatus, outLog, nTransactions>>

\* woken by outerLock->take(1)
doNonIsolatedRO_take ==
    /\ wPc = "take" /\ outerPermits > 0
    /\ outerPermits' = outerPermits - 1
    /\ permits' = permits + 1
    /\ output' = Append(output, doc)
    /\ doc' = NoDoc
    /\ wPc' = "choose"
    /\ UNCHANGED <<ctrVars, idxVars, mergeVars, unionVars, metaVars, pureVars, updVars, cancelLog, txnVars, plan, nDocs, scans, scansAdded, stateAdded, ops, scanPc, scanID, kvs, curKV,
                   lastKey, lastPK, upperBound, futures, states, stStatus, docs, outLog,
                   nTransactions>>

\* waitNext(docs) throws end_of_stream: innerCheckpoint->stop(), output.sendError(e)
doNonIsolatedRO_end ==
    /\ wPc = "choose" /\ docs # <<>> /\ Head(docs) = EndOfStream
    /\ tasks_gone
    /\ cancelLog' = cancelErrors
    /\ wPc' = "done"
    /\ scans' = stopUnder(FALSE, NoKey)
    /\ UNCHANGED <<ctrVars, idxVars, mergeVars, unionVars, metaVars, pureVars, updVars, txnVars, plan, nDocs, states, permits, scanID, upperBound, doc, outerPermits,
                   output, nTransactions>>

\* when(wait(timeout)): break, innerCheckpoint = innerCheckpoint->stopAndCheckpoint()
doNonIsolatedRO_timeout ==
    /\ wPc = "choose" /\ docs = <<>>
    /\ nTransactions < MaxSegs
    /\ \E ub \in (IF splitIsUndefined THEN UndefinedSplits ELSE {NoKey}) :
         IF ub = Abort
         THEN /\ wPc' = "aborted"
              /\ UNCHANGED <<scans, states, permits>>
         ELSE /\ wPc' = "meta"
              /\ scans' = stopAndCheckpoint(ub)
              /\ states' = statesCheckpoint(states)
              /\ permits' = FLOW_CONTROL_LOCK_PERMITS
    /\ tasks_gone
    /\ cancelLog' = cancelErrors
    /\ UNCHANGED <<ctrVars, idxVars, mergeVars, unionVars, metaVars, pureVars, updVars, txnVars, plan, nDocs, scanID, upperBound, doc, outerPermits, output,
                   nTransactions>>

\* the consumer of the wrapper's output finishes a document
consume ==
    /\ outerPermits < FLOW_CONTROL_LOCK_PERMITS
    /\ outerPermits' = outerPermits + 1
    /\ UNCHANGED <<ctrVars, idxVars, mergeVars, unionVars, metaVars, pureVars, updVars, cancelLog, txnVars, plan, nDocs, scans, scansAdded, stateAdded, ops, permits, scanPc, scanID, kvs,
                   curKV, lastKey, lastPK, upperBound, futures, states, stStatus, docs, outLog,
                   wPc, doc, output, nTransactions>>

-----------------------------------------------------------------------------
(* The read-only non-isolated execution of a plan over the collection *)

StageLists == {<<>>, <<"filter">>, <<"flush">>, <<"filter", "project">>}

Plan(leaf, begin, end, stages, existing) ==
    [leaf |-> leaf, begin |-> begin, end |-> end, stages |-> stages, existing |-> existing]

Plans ==
    {Plan("table", None, None, st, "none") : st \in StageLists}
    \cup {Plan("index", None, None, st, "none") : st \in StageLists}
    \cup {Plan("pk", <<20>>, <<20>>, st, "none") : st \in StageLists}

\* no update operator runs
InitNoUpdate ==
    /\ opKind = "none"
    /\ limit = 0
    /\ upsertOp = FALSE
    /\ projectNew = FALSE
    /\ input = <<>>
    /\ uPc = "idle"
    /\ count = 0
    /\ uFutures = <<>>
    /\ firstDoc = NoDoc
    /\ any = FALSE
    /\ proj = "none"
    /\ updated = <<>>
    /\ inserted = 0
    /\ uOutput = <<>>
    /\ uPermits = FLOW_CONTROL_LOCK_PERMITS
    /\ uHeld = 0
    /\ uTransactions = 0

InitExec ==
    /\ nDocs \in 0..MaxDocs
    /\ scans = <<>>
    /\ scansAdded = 0
    /\ ops = <<>>
    /\ states = <<>>
    /\ stateAdded = 0
    /\ permits = FLOW_CONTROL_LOCK_PERMITS
    /\ scanPc = "dead"
    /\ scanID = 0
    /\ kvs = <<>>
    /\ curKV = NoKey
    /\ lastKey = NoKey
    /\ lastPK = NoKey
    /\ upperBound = KeyFF
    /\ futures = <<>>
    /\ stStatus = <<>>
    /\ docs = <<>>
    /\ outLog = <<>>
    /\ wPc = "start"
    /\ doc = NoDoc
    /\ outerPermits = FLOW_CONTROL_LOCK_PERMITS
    /\ output = <<>>
    /\ nTransactions = 0
    /\ committingDocs = <<>>
    /\ bufferedDocs = <<>>
    /\ finished = FALSE
    /\ staged = <<>>
    /\ committed = <<>>
    /\ lastCommit = "none"

\* the metadata of the collection as the wrapper read it at line 706
InitMetadata ==
    /\ metadataVersion = 0
    /\ storeMeta = [version |-> 0, moved |-> FALSE, okay |-> TRUE]

\* no plan with two resumable counters runs
InitNoCounters == refs = <<>> /\ nFed = 0 /\ nSkipped = 0 /\ skipPc = "none"

\* no IndexInsertPlan runs on a modelled indexes collection
InitNoIndexInsert ==
    /\ indexes = {}
    /\ indexObj = [key |-> 0, name |-> 0]
    /\ indexObjs = <<>>
    /\ iiPc = "none"
    /\ iiOutput = <<>>
    /\ bumps = 0

\* no doUnion runs
InitNoDoUnion ==
    /\ restA = <<>> /\ restB = <<>>
    /\ streamA = <<>> /\ streamB = <<>>
    /\ aFuture = NoDoc /\ bFuture = NoDoc
    /\ aOpen = TRUE /\ bOpen = TRUE
    /\ unionOutput = <<>>
    /\ unionPc = "none"
    /\ sentA = <<>> /\ sentB = <<>>

\* a plan without UnionPlan
InitNoUnion ==
    /\ argOrder = "plan1"
    /\ leafID = <<>>
    /\ leafBounds = <<>>
    /\ leafLast = <<>>
    /\ leafPc = <<>>
    /\ firstID = <<>>
    /\ ownSplit = <<>>
    /\ InitNoDoUnion

InitCommon == InitExec /\ InitNoUpdate /\ cancelLog = <<>> /\ InitMetadata /\ InitNoIndexInsert /\ InitNoCounters /\ InitNoUnion

\* no plan is being constructed
InitPure ==
    /\ source = <<"TableScan">>
    /\ filter = <<"ALL">>
    /\ cx = [simple |-> FALSE, compound |-> FALSE]
    /\ pdPlan = <<"Absent">>

Init == plan \in Plans /\ InitCommon /\ InitPure /\ isReadOnly = TRUE

Next ==
    \/ doPKScan_waitNext
    \/ doPKScan_take
    \/ toDocInfo_waitNext
    \/ toDocInfo_take
    \/ was_end_of_stream
    \/ doSinglePKLookup_get
    \/ \E k \in 1..3 : \E i \in 1..(MaxDocs + 3) : stage_ready(k, i)
    \/ doNonIsolatedRO_execute
    \/ doNonIsolatedRO_waitNext
    \/ doNonIsolatedRO_take
    \/ doNonIsolatedRO_end
    \/ doNonIsolatedRO_timeout
    \/ consume

Spec == Init /\ [][Next]_vars

-----------------------------------------------------------------------------
(* The same execution of a filtered TableScan over more documents than the
   lock has permits, under fair scheduling: every task that can run does run,
   every read of the store is answered, the consumer finishes every document.
   Nothing forces a segment timeout to fire. *)

InitFair ==
    /\ plan = Plan("table", None, None, <<"filter">>, "none")
    /\ InitCommon
    /\ isReadOnly = TRUE
    /\ InitPure
    /\ nDocs > FLOW_CONTROL_LOCK_PERMITS

NextFair ==
    \/ doPKScan_waitNext
    \/ doPKScan_take
    \/ was_end_of_stream
    \/ \E i \in 1..(MaxDocs + 3) : stage_ready(1, i)
    \/ doNonIsolatedRO_execute
    \/ doNonIsolatedRO_waitNext
    \/ doNonIsolatedRO_take
    \/ doNonIsolatedRO_end
    \/ doNonIsolatedRO_timeout
    \/ consume

FairSpec ==
    /\ InitFair
    /\ [][NextFair]_vars
    /\ WF_vars(doPKScan_waitNext)
    /\ WF_vars(doPKScan_take)
    /\ WF_vars(was_end_of_stream)
    /\ WF_vars(\E i \in 1..(MaxDocs + 3) : stage_ready(1, i))
    /\ WF_vars(doNonIsolatedRO_execute)
    /\ WF_vars(doNonIsolatedRO_waitNext)
    /\ WF_vars(doNonIsolatedRO_take)
    /\ WF_vars(doNonIsolatedRO_end)
    /\ WF_vars(consume)

-----------------------------------------------------------------------------
(* What the wrappers that own a transaction share *)

\* the front of committingDocs whose commitChanges() futures are ready
RECURSIVE nReady(_)
nReady(q) == IF q # <<>> /\ Head(q).ready THEN 1 + nReady(Tail(q)) ELSE 0

\* the documents of the first n pairs of committingDocs
firstDocs(q, n) == [i \in 1..n |-> q[i].doc]

\* the leaf and stage tasks of the subplan
subPlanTasks ==
    \/ doPKScan_waitNext
    \/ doPKScan_take
    \/ toDocInfo_waitNext
    \/ toDocInfo_take
    \/ was_end_of_stream
    \/ \E k \in 1..3 : \E i \in 1..(MaxDocs + 3) : stage_ready(k, i)

-----------------------------------------------------------------------------
(* doNonIsolatedRW *)

\* subPlan->execute(innerCheckpoint, dtr) with fresh committingDocs, bufferedDocs
doNonIsolatedRW_execute ==
    /\ wPc \in {"start", "meta"}
    /\ wPc = "meta" => storeMeta.version = metadataVersion
    /\ metadataVersion' = versionRead
    /\ execute(scans, states, scansAdded, stateAdded, ops, permits)
    /\ wPc' = "choose"
    /\ committingDocs' = <<>>
    /\ bufferedDocs' = <<>>
    /\ finished' = FALSE
    /\ UNCHANGED <<ctrVars, idxVars, mergeVars, unionVars, isReadOnly, storeMeta, pureVars, updVars, cancelLog, plan, nDocs, doc, outerPermits,
                   output, nTransactions, staged, committed, lastCommit>>

\* when(doc = waitNext(docs)): committingDocs.push_back({doc, doc->commitChanges()})
doNonIsolatedRW_waitNext ==
    /\ wPc = "choose" /\ docs # <<>> /\ Head(docs) # EndOfStream
    /\ docs' = Tail(docs)
    /\ committingDocs' = Append(committingDocs, [doc |-> Head(docs), ready |-> FALSE])
    /\ staged' = Append(staged, Head(docs))
    /\ UNCHANGED <<ctrVars, idxVars, mergeVars, unionVars, metaVars, pureVars, updVars, cancelLog, plan, nDocs, scans, scansAdded, stateAdded, ops, permits, scanPc, scanID, kvs, curKV,
                   lastKey, lastPK, upperBound, futures, states, stStatus, outLog, wPc, doc,
                   outerPermits, output, nTransactions, bufferedDocs, finished, committed,
                   lastCommit>>

\* commitChanges() of the i-th pair becomes ready; in the choose loop the front
\* is moved to bufferedDocs with innerLock->release(1), in the loop after
\* stopAndCheckpoint() without a release
doNonIsolatedRW_changesReady(i) ==
    /\ wPc \in {"choose", "drain"}
    /\ i \in 1..Len(committingDocs) /\ ~committingDocs[i].ready
    /\ LET q == [committingDocs EXCEPT ![i].ready = TRUE]
           n == nReady(q)
       IN  /\ committingDocs' = SubSeq(q, n + 1, Len(q))
           /\ bufferedDocs' = bufferedDocs \o firstDocs(q, n)
           /\ permits' = IF wPc = "choose" THEN permits + n ELSE permits
           /\ wPc' = IF wPc = "drain" /\ n = Len(q) THEN "commit" ELSE wPc
    /\ UNCHANGED <<ctrVars, idxVars, mergeVars, unionVars, metaVars, pureVars, updVars, cancelLog, plan, nDocs, scans, scansAdded, stateAdded, ops, scanPc, scanID, kvs, curKV,
                   lastKey, lastPK, upperBound, futures, states, stStatus, docs, outLog, doc,
                   outerPermits, output, nTransactions, finished, staged, committed,
                   lastCommit>>

\* when(wait(timeout)) break, or waitNext(docs) throws end_of_stream; then
\* next_checkpoint = innerCheckpoint->stopAndCheckpoint()
doNonIsolatedRW_stop ==
    /\ wPc = "choose"
    /\ \/ /\ docs = <<>> /\ nTransactions < MaxSegs
          /\ finished' = FALSE
          /\ nTransactions' = nTransactions + 1
       \/ /\ docs # <<>> /\ Head(docs) = EndOfStream
          /\ finished' = TRUE
          /\ UNCHANGED nTransactions
    /\ \E ub \in (IF splitIsUndefined THEN UndefinedSplits ELSE {NoKey}) :
         IF ub = Abort
         THEN /\ wPc' = "aborted"
              /\ UNCHANGED scans
         ELSE /\ wPc' = IF committingDocs = <<>> THEN "commit" ELSE "drain"
              /\ scans' = stop(ub)
    /\ tasks_gone
    /\ cancelLog' = cancelErrors
    /\ UNCHANGED <<ctrVars, idxVars, mergeVars, unionVars, metaVars, pureVars, updVars, plan, nDocs, states, permits, scanID, upperBound, doc, outerPermits, output,
                   committingDocs, bufferedDocs, staged, committed, lastCommit>>

\* what follows the loop that sends bufferedDocs
afterSegment(fin) == IF fin THEN "done" ELSE "meta"

\* dtr->tr->commit() succeeds: innerCheckpoint = next_checkpoint
doNonIsolatedRW_commit ==
    /\ wPc = "commit"
    /\ committed' = committed \o staged
    /\ staged' = <<>>
    /\ lastCommit' = "ok"
    /\ scans' = checkpointOf(scans)
    /\ states' = statesCheckpoint(states)
    /\ permits' = FLOW_CONTROL_LOCK_PERMITS
    /\ wPc' = IF bufferedDocs = <<>> THEN afterSegment(finished) ELSE "emit"
    /\ UNCHANGED <<ctrVars, idxVars, mergeVars, unionVars, metaVars, pureVars, updVars, cancelLog, plan, nDocs, scansAdded, stateAdded, ops, scanPc, scanID, kvs, curKV, lastKey,
                   lastPK, upperBound, futures, stStatus, docs, outLog, doc, outerPermits,
                   output, nTransactions, committingDocs, bufferedDocs, finished>>

\* while (!bufferedDocs.empty()): outerLock->take(1), output.send, pop_front
doNonIsolatedRW_send ==
    /\ wPc = "emit" /\ bufferedDocs # <<>> /\ outerPermits > 0
    /\ outerPermits' = outerPermits - 1
    /\ output' = Append(output, Head(bufferedDocs))
    /\ bufferedDocs' = Tail(bufferedDocs)
    /\ wPc' = IF Tail(bufferedDocs) = <<>> THEN afterSegment(finished) ELSE "emit"
    /\ UNCHANGED <<ctrVars, idxVars, mergeVars, unionVars, metaVars, pureVars, updVars, cancelLog, plan, nDocs, scans, scansAdded, stateAdded, ops, permits, scanPc, scanID, kvs, curKV,
                   lastKey, lastPK, upperBound, futures, states, stStatus, docs, outLog, doc,
                   nTransactions, committingDocs, finished, staged, committed, lastCommit>>

\* a wrapper that adopts next_checkpoint although the commit failed
doNonIsolatedRW_onError_advancing ==
    /\ wPc = "commit"
    /\ staged' = <<>>
    /\ lastCommit' = "failed"
    /\ finished' = FALSE
    /\ wPc' = "meta"
    /\ scans' = checkpointOf(scans)
    /\ UNCHANGED <<ctrVars, idxVars, mergeVars, unionVars, metaVars, pureVars, updVars, cancelLog, plan, nDocs, scansAdded, stateAdded, ops, permits, scanPc, scanID, kvs, curKV,
                   lastKey, lastPK, upperBound, futures, states, stStatus, docs, outLog, doc,
                   outerPermits, output, nTransactions, committingDocs, bufferedDocs,
                   committed>>

\* dtr->tr->commit() throws a retryable error: onError(e), finished = false,
\* and the loop runs again on the same innerCheckpoint
doNonIsolatedRW_onError ==
    /\ wPc = "commit"
    /\ staged' = <<>>
    /\ lastCommit' = "failed"
    /\ finished' = FALSE
    /\ wPc' = "meta"
    /\ UNCHANGED <<ctrVars, idxVars, mergeVars, unionVars, metaVars, pureVars, updVars, cancelLog, plan, nDocs, scans, scansAdded, stateAdded, ops, permits, scanPc, scanID, kvs, curKV,
                   lastKey, lastPK, upperBound, futures, states, stStatus, docs, outLog, doc,
                   outerPermits, output, nTransactions, committingDocs, bufferedDocs,
                   committed>>

\* the plans NonIsolatedPlan wraps for writing
PlansRW ==
    {Plan("table", None, None, <<"filter">>, "none"), Plan("index", None, None, <<>>, "none")}

InitRW == plan \in PlansRW /\ InitCommon /\ InitPure /\ isReadOnly = FALSE

NextRW ==
    \/ subPlanTasks
    \/ doNonIsolatedRW_execute
    \/ doNonIsolatedRW_waitNext
    \/ \E i \in 1..FLOW_CONTROL_LOCK_PERMITS : doNonIsolatedRW_changesReady(i)
    \/ doNonIsolatedRW_stop
    \/ doNonIsolatedRW_commit
    \/ doNonIsolatedRW_send
    \/ doNonIsolatedRW_onError
    \/ consume

SpecRW == InitRW /\ [][NextRW]_vars

-----------------------------------------------------------------------------
(* doNonIsolatedRW on a store whose commit may also fail with
   commit_unknown_result *)

\* dtr->tr->commit() throws commit_unknown_result (committed or not): the
\* catch of line 860 hands every error to dtr->tr->onError(e), which backs off
\* and returns for this error as for the other retryable ones (capped: the
\* store answers this way only before anything is known to be committed, and
\* not two commits in a row)
doNonIsolatedRW_commitUnknown ==
    /\ wPc = "commit"
    /\ lastCommit # "unknown"
    /\ committed = <<>>
    /\ \E did \in BOOLEAN : committed' = IF did THEN committed \o staged ELSE committed
    /\ staged' = <<>>
    /\ lastCommit' = "unknown"
    /\ finished' = FALSE
    /\ wPc' = "meta"
    /\ UNCHANGED <<ctrVars, idxVars, mergeVars, unionVars, metaVars, pureVars, updVars, cancelLog, plan, nDocs, scans, scansAdded, stateAdded, ops, permits, scanPc, scanID, kvs, curKV,
                   lastKey, lastPK, upperBound, futures, states, stStatus, docs, outLog, doc,
                   outerPermits, output, nTransactions, committingDocs, bufferedDocs>>

NextRWUnknown ==
    \/ NextRW
    \/ doNonIsolatedRW_commitUnknown

SpecRWUnknown == InitRW /\ [][NextRWUnknown]_vars

-----------------------------------------------------------------------------
(* doRetry *)

\* a doRetry that keeps `ret` from one attempt to the next
doRetry_execute_keeping ==
    /\ wPc = "start"
    /\ execute(<<>>, <<>>, 0, 0, <<>>, FLOW_CONTROL_LOCK_PERMITS)
    /\ wPc' = "choose"
    /\ committingDocs' = <<>>
    /\ UNCHANGED <<ctrVars, idxVars, mergeVars, unionVars, metaVars, pureVars, updVars, cancelLog, plan, nDocs, doc, outerPermits, output, nTransactions, bufferedDocs,
                   finished, staged, committed, lastCommit>>

\* innerCheckpoint(new PlanCheckpoint), docs = subPlan->execute(innerCheckpoint, tr),
\* a fresh `committing`, ret = std::vector<>()
doRetry_execute ==
    /\ wPc = "start"
    /\ execute(<<>>, <<>>, 0, 0, <<>>, FLOW_CONTROL_LOCK_PERMITS)
    /\ wPc' = "choose"
    /\ committingDocs' = <<>>
    /\ bufferedDocs' = <<>>
    /\ UNCHANGED <<ctrVars, idxVars, mergeVars, unionVars, metaVars, pureVars, updVars, cancelLog, plan, nDocs, doc, outerPermits, output, nTransactions, finished, staged,
                   committed, lastCommit>>

\* when(next = waitNext(docs)): committing.push_back({next, next->commitChanges()})
doRetry_waitNext ==
    /\ wPc = "choose" /\ docs # <<>> /\ Head(docs) # EndOfStream
    /\ docs' = Tail(docs)
    /\ committingDocs' = Append(committingDocs, [doc |-> Head(docs), ready |-> FALSE])
    /\ staged' = Append(staged, Head(docs))
    /\ UNCHANGED <<ctrVars, idxVars, mergeVars, unionVars, metaVars, pureVars, updVars, cancelLog, plan, nDocs, scans, scansAdded, stateAdded, ops, permits, scanPc, scanID, kvs, curKV,
                   lastKey, lastPK, upperBound, futures, states, stStatus, outLog, wPc, doc,
                   outerPermits, output, nTransactions, bufferedDocs, finished, committed,
                   lastCommit>>

\* commitChanges() of the i-th pair becomes ready: in either loop the front
\* moves to `ret` and innerLock->release() runs
doRetry_changesReady(i) ==
    /\ wPc \in {"choose", "drain"}
    /\ i \in 1..Len(committingDocs) /\ ~committingDocs[i].ready
    /\ LET q == [committingDocs EXCEPT ![i].ready = TRUE]
           n == nReady(q)
       IN  /\ committingDocs' = SubSeq(q, n + 1, Len(q))
           /\ bufferedDocs' = bufferedDocs \o firstDocs(q, n)
           /\ permits' = permits + n
           /\ wPc' = IF wPc = "drain" /\ n = Len(q) THEN "commit" ELSE wPc
    /\ UNCHANGED <<ctrVars, idxVars, mergeVars, unionVars, metaVars, pureVars, updVars, cancelLog, plan, nDocs, scans, scansAdded, stateAdded, ops, scanPc, scanID, kvs, curKV,
                   lastKey, lastPK, upperBound, futures, states, stStatus, docs, outLog, doc,
                   outerPermits, output, nTransactions, finished, staged, committed,
                   lastCommit>>

\* waitNext(docs) throws end_of_stream: innerCheckpoint->stop()
doRetry_end ==
    /\ wPc = "choose" /\ docs # <<>> /\ Head(docs) = EndOfStream
    /\ tasks_gone
    /\ cancelLog' = cancelErrors
    /\ wPc' = IF committingDocs = <<>> THEN "commit" ELSE "drain"
    /\ scans' = stopUnder(FALSE, NoKey)
    /\ UNCHANGED <<ctrVars, idxVars, mergeVars, unionVars, metaVars, pureVars, updVars, txnVars, plan, nDocs, states, permits, scanID, upperBound, doc,
                   outerPermits, output, nTransactions>>

\* a read of the subplan fails with a retryable error: innerCheckpoint->stop(),
\* tr->tr->onError(e), tr = self->newTransaction()
doRetry_subPlanError ==
    /\ wPc = "choose" /\ scanPc \in {"waitKV", "waitGet", "lookup"}
    /\ nTransactions < MaxSegs
    /\ nTransactions' = nTransactions + 1
    /\ tasks_gone
    /\ cancelLog' = stopError
    /\ staged' = <<>>
    /\ wPc' = "start"
    /\ scans' = stopUnder(FALSE, NoKey)
    /\ UNCHANGED <<ctrVars, idxVars, mergeVars, unionVars, metaVars, pureVars, updVars, plan, nDocs, states, permits, scanID, upperBound, doc, outerPermits,
                   output, committingDocs, bufferedDocs, finished, committed, lastCommit>>

\* tr->tr->commit() succeeds
doRetry_commit ==
    /\ wPc = "commit"
    /\ committed' = committed \o staged
    /\ staged' = <<>>
    /\ lastCommit' = "ok"
    /\ wPc' = IF bufferedDocs = <<>> THEN "done" ELSE "emit"
    /\ UNCHANGED <<ctrVars, idxVars, mergeVars, unionVars, metaVars, pureVars, updVars, cancelLog, plan, nDocs, scans, scansAdded, stateAdded, ops, permits, scanPc, scanID, kvs, curKV,
                   lastKey, lastPK, upperBound, futures, states, stStatus, docs, outLog, doc,
                   outerPermits, output, nTransactions, committingDocs, bufferedDocs,
                   finished>>

\* for (loopThing : ret): outerLock->take(1), output.send(r); then end_of_stream
doRetry_send ==
    /\ wPc = "emit" /\ bufferedDocs # <<>> /\ outerPermits > 0
    /\ outerPermits' = outerPermits - 1
    /\ output' = Append(output, Head(bufferedDocs))
    /\ bufferedDocs' = Tail(bufferedDocs)
    /\ wPc' = IF Tail(bufferedDocs) = <<>> THEN "done" ELSE "emit"
    /\ UNCHANGED <<ctrVars, idxVars, mergeVars, unionVars, metaVars, pureVars, updVars, cancelLog, plan, nDocs, scans, scansAdded, stateAdded, ops, permits, scanPc, scanID, kvs, curKV,
                   lastKey, lastPK, upperBound, futures, states, stStatus, docs, outLog, doc,
                   nTransactions, committingDocs, finished, staged, committed, lastCommit>>

\* tr->tr->commit() throws commit_unknown_result (committed or not): the catch
\* of line 956 rethrows it and the outer catch does output.sendError(e)
doRetry_commitUnknown ==
    /\ wPc = "commit"
    /\ \E did \in BOOLEAN : committed' = IF did THEN committed \o staged ELSE committed
    /\ staged' = <<>>
    /\ lastCommit' = "unknown"
    /\ wPc' = "error"
    /\ UNCHANGED <<ctrVars, idxVars, mergeVars, unionVars, metaVars, pureVars, updVars, cancelLog, plan, nDocs, scans, scansAdded, stateAdded, ops, permits, scanPc, scanID, kvs, curKV,
                   lastKey, lastPK, upperBound, futures, states, stStatus, docs, outLog, doc,
                   outerPermits, output, nTransactions, committingDocs, bufferedDocs,
                   finished>>

\* tr->tr->commit() throws a retryable error: onError(e), tr = self->newTransaction()
doRetry_onError ==
    /\ wPc = "commit"
    /\ nTransactions < MaxSegs
    /\ nTransactions' = nTransactions + 1
    /\ staged' = <<>>
    /\ lastCommit' = "failed"
    /\ wPc' = "start"
    /\ UNCHANGED <<ctrVars, idxVars, mergeVars, unionVars, metaVars, pureVars, updVars, cancelLog, plan, nDocs, scans, scansAdded, stateAdded, ops, permits, scanPc, scanID, kvs, curKV,
                   lastKey, lastPK, upperBound, futures, states, stStatus, docs, outLog, doc,
                   outerPermits, output, committingDocs, bufferedDocs, finished, committed>>

\* the plans RetryPlan wraps
PlansRetry ==
    {Plan("table", None, None, <<"filter">>, "none"),
     Plan("index", None, None, <<>>, "none"),
     Plan("indexInsert", None, None, <<>>, "none"),
     Plan("indexInsert", None, None, <<>>, "sameKey")}

InitRetry == plan \in PlansRetry /\ InitCommon /\ InitPure /\ isReadOnly = FALSE

NextRetry ==
    \/ subPlanTasks
    \/ doIndexInsert
    \/ doRetry_execute
    \/ doRetry_waitNext
    \/ \E i \in 1..FLOW_CONTROL_LOCK_PERMITS : doRetry_changesReady(i)
    \/ doRetry_end
    \/ doRetry_subPlanError
    \/ doRetry_commit
    \/ doRetry_send
    \/ doRetry_onError
    \/ doRetry_commitUnknown
    \/ consume

SpecRetry == InitRetry /\ [][NextRetry]_vars

-----------------------------------------------------------------------------
(* What one uninterrupted execution of the plan delivers *)

SourcePKs ==
    IF plan.leaf = "indexInsert"
    THEN (IF plan.existing = "none" THEN {IndexDoc.pk} ELSE {})
    ELSE IF isPointLookup(plan) THEN {plan.begin[1]} \cap PKs(nDocs) ELSE PKs(nDocs)

ExpectedPKs ==
    {pk \in SourcePKs :
        \A k \in 1..Len(plan.stages) :
            plan.stages[k] = "filter" => predicate(ScanReturnedContext(pk, 0, NoKey))}

TimesDelivered(pk) == Cardinality({i \in 1..Len(output) : output[i].pk = pk})

ExactlyOnce ==
    /\ \A pk \in ExpectedPKs : TimesDelivered(pk) = 1
    /\ \A i \in 1..Len(output) : output[i].pk \in ExpectedPKs

\* an execution that was never stopped delivers the expected documents
UninterruptedDelivery == (wPc = "done" /\ nTransactions = 0) => ExactlyOnce

-----------------------------------------------------------------------------
\* C1: the documents delivered before a stopAndCheckpoint() together with
\* those delivered by re-executing the plan on the returned checkpoint are the
\* documents of one uninterrupted execution: once the output has ended, every
\* expected document was delivered exactly once and no other document was.
C1_ExactlyOnceAcrossCheckpoints == wPc = "done" => ExactlyOnce

-----------------------------------------------------------------------------
\* the scan key under which an uninterrupted execution delivers document pk
ScanKeyOf(pk) ==
    IF plan.leaf = "index"
    THEN <<CHOOSE v \in IndexVals(pk) : \A w \in IndexVals(pk) : w <= v, pk>>
    ELSE <<pk>>

Undelivered == {pk \in ExpectedPKs : TimesDelivered(pk) = 0}

\* C2: after stopAndCheckpoint() the split key of the scan (the begin of the
\* returned bounds) is greater than the scan key of every document already
\* delivered and at most the scan key of every document still to deliver.
C2_SplitBrackets ==
    (wPc = "meta" /\ Len(scans) = 1) =>
        /\ \A i \in 1..Len(output) : KeyLT(output[i].key, scans[1].begin)
        /\ \A pk \in Undelivered : KeyLE(scans[1].begin, ScanKeyOf(pk))

-----------------------------------------------------------------------------
StrictlyIncreasing(q) == \A i \in 1..(Len(q) - 1) : KeyLT(q[i], q[i + 1])

-----------------------------------------------------------------------------
\* C4: non-isolated read-only execution of a TableScan delivers every
\* document of the collection exactly once, in increasing primary-key order,
\* whenever the segment timeouts fire.
C4_TableScanExactlyOnceInOrder ==
    (plan.leaf = "table" /\ plan.stages = <<>> /\ wPc = "done") =>
        /\ Len(output) = nDocs
        /\ \A i \in 1..Len(output) : output[i].pk = PKOf(i)

-----------------------------------------------------------------------------
\* documents emitted by the leaf under the inner checkpoint and neither
\* discarded by a stage nor consumed by the wrapper
InFlight ==
    Cardinality({<<k, i>> \in (1..Len(futures)) \X (1..(MaxDocs + 3)) : i <= Len(futures[k])})
    + Cardinality({i \in 1..Len(docs) : docs[i] # EndOfStream})
    + (IF wPc = "take" THEN 1 ELSE 0)

\* C6: the documents in flight under a checkpoint never exceed
\* FLOW_CONTROL_LOCK_PERMITS, and while the lock has no free permit the leaf
\* sends nothing.
C6_InFlightBounded ==
    [][/\ InFlight' <= FLOW_CONTROL_LOCK_PERMITS
       /\ (permits = 0 /\ Len(outLog) >= 1 /\ Len(outLog') >= 1 /\ scanPc' # "dead")
              => outLog'[1] = outLog[1]]_vars

\* the lock is exhausted and the leaf waits for a permit while documents
\* remain to be read
C6_Witness == permits = 0 /\ scanPc = "take" /\ InFlight = FLOW_CONTROL_LOCK_PERMITS

-----------------------------------------------------------------------------
\* C7: stopAndCheckpoint() on an execution that has delivered no document
\* returns a checkpoint with the same bounds for every scan.
C7_ZeroDocsNoOp ==
    [][(wPc = "choose" /\ wPc' = "meta" /\ outLog[Len(outLog)] = <<>>)
           => \A s \in 1..Len(scans) :
                  scans'[s].begin = scans[s].begin /\ scans'[s].end = scans[s].end]_vars

-----------------------------------------------------------------------------
\* the permits of the inner lock that are accounted for: documents in flight
\* in the subplan, documents the wrapper holds in committingDocs, and the
\* document doIndexInsert is still producing
Held ==
    InFlight + Len(committingDocs) + (IF scanPc = "lookup" THEN 1 ELSE 0)

\* C5: at every quiescent point of an execution on a checkpoint the permits
\* taken from its lock and not released are exactly the documents still in
\* flight: no permit is taken without a document emitted for it and no
\* dropped or consumed document keeps its permit.
C5_PermitConservation ==
    wPc = "choose" => FLOW_CONTROL_LOCK_PERMITS - permits = Held

-----------------------------------------------------------------------------
-----------------------------------------------------------------------------
IsPrefix(a, b) == Len(a) <= Len(b) /\ SubSeq(b, 1, Len(a)) = a

BoundsOf(sc) == [i \in 1..Len(sc) |-> <<sc[i].begin, sc[i].end>>]

\* C9: doNonIsolatedRW sends a document only after the commit of the
\* transaction that staged its changes succeeded; a failed commit sends
\* nothing, leaves the bounds of the inner checkpoint as they were and runs the
\* subplan again on them with empty buffers; a successful commit continues on
\* the checkpoint stopAndCheckpoint() returned.
C9_EmitAfterCommit ==
    [][/\ IsPrefix(output', committed')
       /\ (output' # output => (wPc = "emit" /\ lastCommit = "ok"))
       /\ (wPc = "commit" /\ wPc' # "commit" /\ lastCommit' = "failed")
              => (output' = output /\ wPc' = "meta" /\ BoundsOf(scans') = BoundsOf(scans))
       /\ (wPc = "commit" /\ wPc' # "commit" /\ lastCommit' = "ok")
              => scans' = checkpointOf(scans)
       /\ (wPc = "meta" /\ wPc' = "choose")
              => (BoundsOf(scans') = BoundsOf(scans) /\ bufferedDocs' = <<>>
                  /\ committingDocs' = <<>>)]_vars

\* after a committed segment was sent, the commit of a later segment failed
\* although documents were buffered, and the segment runs again
C9_Witness ==
    /\ lastCommit = "failed" /\ wPc = "choose"
    /\ output # <<>> /\ bufferedDocs # <<>>
    /\ Len(scans) = 1 /\ scans[1].split # scans[1].begin /\ scans[1].split # KeyFF

-----------------------------------------------------------------------------
\* C10: doRetry sends nothing before a commit succeeded, and once its output
\* has ended it has sent exactly the documents of the attempt that committed,
\* in that attempt's order: the documents of one uninterrupted execution.
C10_RetryEmitsCommittedAttempt ==
    /\ output # <<>> => lastCommit = "ok"
    /\ IsPrefix(output, committed)
    /\ wPc = "done" => (output = committed /\ ExactlyOnce)

\* two failed attempts, one of them with buffered documents, then a success
C10_Witness ==
    /\ wPc = "done" /\ nTransactions >= 2 /\ Len(output) >= 2

-----------------------------------------------------------------------------
\* C11: a commit that fails with commit_unknown_result is never followed by a
\* re-execution: the wrapper sends the error to its output and stops.
C11_UnknownResultSurfaced ==
    [][(wPc = "commit" /\ wPc' # "commit" /\ lastCommit' = "unknown") => wPc' = "error"]_vars

-----------------------------------------------------------------------------
(* Predicates: IPredicate trees over the fields _id, a and b.  A tree is a
   tuple whose first item is its type code:
     <<"ALL">>, <<"NONE">>, <<"AND", terms>>, <<"OR", terms>>, <<"NOT", term>>,
     <<"ANY", field, begin, end, tight>>
   where the sub-predicate of ANY is a range of values, closed when `tight'
   and open otherwise. *)

typeCode(q) == q[1]

FieldVals(f, pk) ==
    CASE f = "_id" -> {pk}
      [] f = "a" -> IndexVals(pk)
      [] OTHER -> BVals(pk)

\* DataValue::encode_key_part of a value
encode_key_part(v) == <<v>>

\* the sub-predicate of ANY on one value
rangeHolds(q, v) ==
    IF q[5]
    THEN (q[3] = None \/ KeyLE(q[3], encode_key_part(v)))
         /\ (q[4] = None \/ KeyLE(encode_key_part(v), q[4]))
    ELSE (q[3] = None \/ KeyLT(q[3], encode_key_part(v)))
         /\ (q[4] = None \/ KeyLT(encode_key_part(v), q[4]))

\* IPredicate::evaluate on document pk
RECURSIVE evaluate(_, _)
evaluate(q, pk) ==
    CASE typeCode(q) = "ALL" -> TRUE
      [] typeCode(q) = "NONE" -> FALSE
      [] typeCode(q) = "ANY" -> \E v \in FieldVals(q[2], pk) : rangeHolds(q, v)
      [] typeCode(q) = "AND" -> \A i \in 1..Len(q[2]) : evaluate(q[2][i], pk)
      [] typeCode(q) = "OR" -> \E i \in 1..Len(q[2]) : evaluate(q[2][i], pk)
      [] OTHER -> ~evaluate(q[2], pk)

\* get_range(begin, end) and range_is_tight() of the sub-predicate of ANY
get_range(q) == [begin |-> q[3], end |-> q[4]]

range_is_tight(q) == q[5]

\* the terms of an AND (OR) with nested ANDs (ORs) spliced in
RECURSIVE flatten(_, _)
flatten(code, ts) ==
    IF ts = <<>> THEN <<>>
    ELSE (IF typeCode(Head(ts)) = code THEN Head(ts)[2] ELSE <<Head(ts)>>)
         \o flatten(code, Tail(ts))

\* IPredicate::simplify
RECURSIVE simplify(_)
simplify(q) ==
    CASE typeCode(q) = "AND" ->
            LET ts == flatten("AND", [i \in 1..Len(q[2]) |-> simplify(q[2][i])])
                kept == SelectSeq(ts, LAMBDA t : typeCode(t) # "ALL")
            IN  IF \E i \in 1..Len(ts) : typeCode(ts[i]) = "NONE" THEN <<"NONE">>
                ELSE IF kept = <<>> THEN <<"ALL">>
                ELSE IF Len(kept) = 1 THEN kept[1]
                ELSE <<"AND", kept>>
      [] typeCode(q) = "OR" ->
            LET ts == flatten("OR", [i \in 1..Len(q[2]) |-> simplify(q[2][i])])
                kept == SelectSeq(ts, LAMBDA t : typeCode(t) # "NONE")
            IN  IF \E i \in 1..Len(ts) : typeCode(ts[i]) = "ALL" THEN <<"ALL">>
                ELSE IF kept = <<>> THEN <<"NONE">>
                ELSE IF Len(kept) = 1 THEN kept[1]
                ELSE <<"OR", kept>>
      [] typeCode(q) = "NOT" ->
            LET t == simplify(q[2])
            IN  IF typeCode(t) = "ALL" THEN <<"NONE">>
                ELSE IF typeCode(t) = "NONE" THEN <<"ALL">>
                ELSE <<"NOT", t>>
      [] OTHER -> q

-----------------------------------------------------------------------------
(* Plans as construct_filter_plan builds them.  A plan is a tuple whose first
   item is its class:
     <<"TableScan">>, <<"Empty">>, <<"PKLookup", begin, end>>,
     <<"IndexScan", index, begin, end>>, <<"Filter", source, filter>>,
     <<"Union", plan1, plan2>>
   and <<"Absent">> stands for the Optional without a plan. *)

Absent == <<"Absent">>

present(p) == p[1] # "Absent"

\* cx->getSimpleIndex(indexKey): the collection may have an index on a
getSimpleIndex(f) == IF cx.simple /\ f = "a" THEN "a" ELSE "none"

\* cx->getCompoundIndex(index, indexKey): it may have one on (a, b)
getCompoundIndex(index, f) == IF cx.compound /\ index = "a" /\ f = "b" THEN "ab" ELSE "none"

\* IndexScanPlan::single_key
single_key(p) == p[3] # None /\ p[4] # None /\ p[3] = p[4]

\* a push-down of AND that forgets the terms it did not push
other_terms_dropped(terms, i) == <<>>

\* other_terms: terms[0..i) followed by terms(i..]
other_terms(terms, i) == SubSeq(terms, 1, i - 1) \o SubSeq(terms, i + 1, Len(terms))

\* a push-down of OR whose first branch does not exclude the last term
remainder_overlapping(terms) ==
    simplify(<<"AND", <<<<"OR", SubSeq(terms, 1, Len(terms) - 1)>>>>>>)

\* AndPredicate({OrPredicate(pdTerms), NotPredicate(last)})->simplify()
remainder(terms) ==
    simplify(<<"AND", <<<<"OR", SubSeq(terms, 1, Len(terms) - 1)>>,
                        <<"NOT", terms[Len(terms)]>>>>>>)

RECURSIVE push_down(_, _)
RECURSIVE construct_filter_plan(_, _)
RECURSIVE firstPushed(_, _, _)

\* for (i = 0; i < terms.size(); ++i): the first term whose push_down succeeds
firstPushed(p, terms, i) ==
    IF i > Len(terms) THEN 0
    ELSE IF present(push_down(p, terms[i])) THEN i
    ELSE firstPushed(p, terms, i + 1)

\* case IPredicate::AND of TableScanPlan::push_down and IndexScanPlan::push_down
push_down_and(p, terms) ==
    LET i == firstPushed(p, terms, 1)
    IN  IF i = 0 THEN Absent
        ELSE construct_filter_plan(push_down(p, terms[i]),
                                   simplify(<<"AND", other_terms(terms, i)>>))

\* the plan for the range of q, under a filter when the range is not tight
ranged(scan, q) ==
    IF range_is_tight(q) THEN scan ELSE construct_filter_plan(scan, q)

\* TableScanPlan::push_down
push_down_table(p, query) ==
    CASE typeCode(query) = "ANY" ->
            LET r == get_range(query)
                hasRange == r.begin # None \/ r.end # None
            IN  IF query[2] = "_id"
                THEN IF hasRange THEN ranged(<<"PKLookup", r.begin, r.end>>, query)
                     ELSE Absent
                ELSE IF getSimpleIndex(query[2]) # "none" /\ hasRange
                THEN ranged(<<"IndexScan", getSimpleIndex(query[2]), r.begin, r.end>>, query)
                ELSE Absent
      [] typeCode(query) = "OR" ->
            LET terms == query[2]
                lastPlan == push_down(p, terms[Len(terms)])
            IN  IF present(lastPlan)
                THEN LET pd == push_down(p, remainder(terms))
                     IN  IF present(pd) THEN <<"Union", pd, lastPlan>> ELSE Absent
                ELSE Absent
      [] typeCode(query) = "AND" -> push_down_and(p, query[2])
      [] typeCode(query) = "NONE" -> <<"Empty">>
      [] OTHER -> Absent

\* IndexScanPlan::push_down
push_down_index(p, query) ==
    IF single_key(p)
    THEN CASE typeCode(query) = "ANY" ->
                 LET r == get_range(query)
                     oIndex == getCompoundIndex(p[2], query[2])
                     beginKeySuffix == IF r.begin # None THEN r.begin ELSE KeyZero
                     endKeySuffix == IF r.end # None THEN r.end ELSE KeyFF
                 IN  IF oIndex # "none" /\ (r.begin # None \/ r.end # None)
                     THEN ranged(<<"IndexScan", oIndex,
                                   IF p[3] # None THEN p[3] \o beginKeySuffix ELSE p[3],
                                   IF p[4] # None THEN p[4] \o endKeySuffix ELSE p[4]>>, query)
                     ELSE Absent
           [] typeCode(query) = "AND" -> push_down_and(p, query[2])
           [] OTHER -> Absent
    ELSE Absent

\* Plan::push_down of each class of plan
push_down(p, query) ==
    CASE p[1] = "TableScan" -> push_down_table(p, query)
      [] p[1] = "IndexScan" -> push_down_index(p, query)
      [] p[1] = "Filter" -> <<"Filter", p[2], simplify(<<"AND", <<p[3], query>>>>)>>
      [] OTHER -> Absent

\* FilterPlan::construct_filter_plan
construct_filter_plan(src, f) ==
    IF typeCode(f) = "ALL" THEN src
    ELSE LET pdp == push_down(src, f)
         IN  IF present(pdp) THEN pdp ELSE <<"Filter", src, f>>

-----------------------------------------------------------------------------
(* What a plan emits when it runs to its end on a fresh checkpoint: the
   primary keys of the documents, in the order of the output *)

\* the documents of 1..nDocs in primary-key order
allPKs == [i \in 1..nDocs |-> PKOf(i)]

\* PrimaryKeyLookupPlan::execute
resultsPKLookup(begin, end) ==
    LET r == [begin |-> begin, end |-> end]
        b == getBounds(<<>>, 0)
        found == getDescendants(TableKeys(nDocs), lowerBoundOf(r, b), upperBoundOf(r, b))
    IN  IF begin # None /\ end # None /\ begin = end
        THEN IF begin[1] \in PKs(nDocs) THEN <<begin[1]>> ELSE <<>>
        ELSE SelectSeq(allPKs, LAMBDA pk : \E i \in 1..Len(found) : found[i][1] = pk)

\* IndexScanPlan::execute
resultsIndexScan(index, begin, end) ==
    LET r == [begin |-> begin, end |-> end]
        b == getBounds(<<>>, 0)
        ub == upperBoundOf(r, b)
        found == getDescendants(IF index = "a" THEN IndexKeys(nDocs) ELSE CompoundKeys(nDocs),
                                lowerBoundOf(r, b), ub)
        ds == [i \in 1..Len(found) |->
                 ScanReturnedContext(decode_item_rev(found[i], 0)[1], 0, found[i])]
        passed == IF begin # None /\ end # None /\ begin = end /\ index = "a" THEN ds
                  ELSE IF index = "a" THEN SelectSeq(ds, LAMBDA d : simpleWouldBeLast(d, ub))
                  ELSE SelectSeq(ds, LAMBDA d : compoundWouldBeLast(d, ub))
    IN  [i \in 1..Len(passed) |-> passed[i].pk]

\* Plan::execute of each class of plan
RECURSIVE results(_)
results(p) ==
    CASE p[1] = "TableScan" -> allPKs
      [] p[1] = "PKLookup" -> resultsPKLookup(p[2], p[3])
      [] p[1] = "IndexScan" -> resultsIndexScan(p[2], p[3], p[4])
      [] p[1] = "Filter" -> SelectSeq(results(p[2]), LAMBDA pk : evaluate(p[3], pk))
      [] p[1] = "Union" -> results(p[2]) \o results(p[3])
      [] OTHER -> <<>>

\* how many times a plan's output holds document pk
occurrences(out, pk) == Cardinality({i \in 1..Len(out) : out[i] = pk})

sameMultiset(out1, out2) ==
    \A pk \in PKs(nDocs) \cup {out1[i] : i \in 1..Len(out1)} \cup {out2[i] : i \in 1..Len(out2)} :
        occurrences(out1, pk) = occurrences(out2, pk)

-----------------------------------------------------------------------------
(* Plan construction: construct_filter_plan on a source plan and a predicate *)

\* ranges a query may ask for: (begin, end) of encoded values
IdRanges == {<<<<10>>, <<10>>>>, <<None, <<20>>>>, <<<<20>>, None>>}
ARanges == {<<<<1>>, <<1>>>>, <<<<2>>, <<2>>>>, <<<<3>>, <<3>>>>, <<None, <<2>>>>,
            <<<<2>>, None>>, <<<<1>>, <<3>>>>}
BRanges == {<<<<1>>, <<1>>>>, <<<<2>>, <<2>>>>, <<None, <<1>>>>, <<<<2>>, None>>}

Leaves ==
    {<<"ANY", "_id", r[1], r[2], t>> : r \in IdRanges, t \in BOOLEAN}
    \cup {<<"ANY", "a", r[1], r[2], t>> : r \in ARanges, t \in BOOLEAN}
    \cup {<<"ANY", "b", r[1], r[2], t>> : r \in BRanges, t \in {TRUE}}
    \cup {<<"ANY", "b", None, None, TRUE>>, <<"ALL">>, <<"NONE">>}

\* terms that stand for the classes of leaf in three-term and nested predicates
FewLeaves ==
    {<<"ANY", "_id", <<10>>, <<10>>, TRUE>>, <<"ANY", "a", <<1>>, <<3>>, FALSE>>,
     <<"ANY", "a", <<3>>, <<3>>, TRUE>>, <<"ANY", "b", <<2>>, None, TRUE>>,
     <<"ANY", "b", None, None, TRUE>>}

Filters ==
    Leaves
    \cup {<<"NOT", t>> : t \in Leaves}
    \cup {<<"AND", <<s, t>>>> : s \in Leaves, t \in Leaves}
    \cup {<<"OR", <<s, t>>>> : s \in Leaves, t \in Leaves}
    \cup {<<"OR", <<s, t, u>>>> : s \in FewLeaves, t \in FewLeaves, u \in FewLeaves}
    \cup {<<"OR", <<<<"AND", <<s, t>>>>, u>>>> : s \in FewLeaves, t \in FewLeaves, u \in FewLeaves}
    \cup {<<"AND", <<<<"OR", <<s, t>>>>, u>>>> : s \in FewLeaves, t \in FewLeaves, u \in FewLeaves}

Sources ==
    {<<"TableScan">>, <<"Empty">>, <<"PKLookup", <<10>>, <<20>>>>,
     <<"IndexScan", "a", <<2>>, <<2>>>>, <<"IndexScan", "a", <<1>>, <<1>>>>,
     <<"IndexScan", "a", None, <<2>>>>,
     <<"Filter", <<"TableScan">>, <<"ANY", "b", <<2>>, <<2>>, TRUE>>>>,
     <<"Union", <<"PKLookup", <<10>>, <<10>>>>, <<"PKLookup", <<20>>, None>>>>}

\* a plan that scans an index needs the collection to have that index
InitPushDown ==
    /\ plan = Plan("table", None, None, <<>>, "none")
    /\ InitCommon
    /\ isReadOnly = TRUE
    /\ source \in Sources
    /\ filter \in Filters
    /\ cx \in [simple : BOOLEAN, compound : BOOLEAN]
    /\ source[1] = "IndexScan" => cx.simple
    /\ pdPlan = Absent

\* FilterPlan::construct_filter_plan(cx, source, filter)
constructFilterPlan ==
    /\ pdPlan = Absent
    /\ pdPlan' = construct_filter_plan(source, filter)
    /\ UNCHANGED <<ctrVars, idxVars, mergeVars, unionVars, metaVars, execVars, updVars, cancelLog, source, filter, cx>>

NextPushDown == constructFilterPlan

SpecPushDown == InitPushDown /\ [][NextPushDown]_vars

\* C12: the plan construct_filter_plan returns emits the same multiset of
\* documents as the filter on the source does
C12_PushDownSameMultiset ==
    pdPlan # Absent => sameMultiset(results(pdPlan), results(<<"Filter", source, filter>>))

\* a term of an AND was pushed into an index scan and the rest stayed as a filter
C12_Witness ==
    /\ pdPlan # Absent
    /\ pdPlan[1] = "Filter"
    /\ pdPlan[2][1] = "IndexScan"
    /\ typeCode(filter) = "AND"
    /\ source = <<"TableScan">>
    /\ results(pdPlan) # <<>>
    /\ Len(results(pdPlan)) < nDocs


\* C13: for every source plan (here a table scan, an index scan or a filter),
\* pushing ALL gives the source plan itself and pushing NONE gives EmptyPlan
C13_AllAndNone ==
    (pdPlan # Absent /\ source[1] \in {"TableScan", "IndexScan", "Filter"}) =>
        /\ (typeCode(filter) = "ALL" => pdPlan = source)
        /\ (typeCode(filter) = "NONE" => pdPlan = <<"Empty">>)


\* the OR predicate was given to a table scan
orIntoTableScan == pdPlan # Absent /\ source = <<"TableScan">> /\ typeCode(filter) = "OR"

\* both pushes of the OR case succeed
orPushable ==
    /\ present(push_down(source, filter[2][Len(filter[2])]))
    /\ present(push_down(source, remainder(filter[2])))

\* C14: an OR pushed into a table scan gives a union of two branches that share
\* no document, so every document matching the OR is emitted exactly once; when
\* the last term or the remainder cannot be pushed, the OR is not pushed at all
C14_OrBranchesDisjoint ==
    orIntoTableScan =>
        IF orPushable
        THEN /\ pdPlan[1] = "Union"
             /\ \A pk \in PKs(nDocs) :
                   /\ occurrences(results(pdPlan[2]), pk) = 0
                      \/ occurrences(results(pdPlan[3]), pk) = 0
                   /\ occurrences(results(pdPlan), pk) = IF evaluate(filter, pk) THEN 1 ELSE 0
        ELSE pdPlan = <<"Filter", source, filter>>

\* a document matches both terms of a pushed OR and the union emits it once
C14_Witness ==
    /\ orIntoTableScan
    /\ pdPlan[1] = "Union"
    /\ \E pk \in PKs(nDocs) :
          /\ \A i \in 1..Len(filter[2]) : evaluate(filter[2][i], pk)
          /\ occurrences(results(pdPlan), pk) = 1
    /\ results(pdPlan[2]) # <<>>
    /\ results(pdPlan[3]) # <<>>


-----------------------------------------------------------------------------
(* Index scans over a range, read-only and non-isolated: the leaf toDocInfo
   and the stage deduplicateIndexStream, on the simple index on a and on the
   compound index on (a, b) *)

CompoundPlan(begin, end) ==
    [leaf |-> "index", begin |-> begin, end |-> end, stages |-> <<>>, existing |-> "none",
     index |-> "ab"]

PlansIndex ==
    {Plan("index", None, None, <<>>, "none"),
     Plan("index", None, <<2>>, <<>>, "none"),
     Plan("index", <<2>>, None, <<>>, "none"),
     Plan("index", <<1>>, <<3>>, <<>>, "none"),
     CompoundPlan(None, None),
     CompoundPlan(<<2>>, <<2>>),
     CompoundPlan(<<2, 0>>, <<2, 1>>),
     CompoundPlan(None, <<2, 1>>)}

InitIndex == plan \in PlansIndex /\ InitCommon /\ InitPure /\ isReadOnly = TRUE

NextIndex ==
    \/ toDocInfo_waitNext
    \/ toDocInfo_take
    \/ was_end_of_stream
    \/ \E i \in 1..(MaxDocs + 3) : stage_ready(1, i)
    \/ doNonIsolatedRO_execute
    \/ doNonIsolatedRO_waitNext
    \/ doNonIsolatedRO_take
    \/ doNonIsolatedRO_end
    \/ doNonIsolatedRO_timeout
    \/ consume

SpecIndex == InitIndex /\ [][NextIndex]_vars

\* the encoded indexed values of a document: one part per index entry
keyParts(pk) ==
    IF indexOf(plan) = "a" THEN {<<v>> : v \in IndexVals(pk)}
    ELSE {<<va, vb>> : va \in IndexVals(pk), vb \in BVals(pk)}

eligibleParts(pk) == {s \in keyParts(pk) : KeyLT(s, upperBound)}

\* the entry of the document with its largest value strictly below the bound
eligibleEntry(pk) ==
    (CHOOSE s \in eligibleParts(pk) : \A t \in eligibleParts(pk) : KeyLE(t, s)) \o <<pk>>

\* the keys the dedup stage has sent in this execution
dedupOut == outLog[2]

\* C15: in every execution of an index scan over a range the dedup stage emits
\* a document only at the entry holding the largest of its values that is
\* strictly below indexUpperBound, never twice, and, once the stage has ended,
\* it has emitted every document whose such entry lies in the range the
\* execution read (which begins at the checkpoint's begin when it is resumed)
C15_DedupEmitsAtLastEligibleEntry ==
    Len(outLog) >= 2 =>
        /\ \A i \in 1..Len(dedupOut) :
              LET pk == decode_item_rev(dedupOut[i], 0)[1]
              IN  /\ eligibleParts(pk) # {}
                  /\ dedupOut[i] = eligibleEntry(pk)
        /\ \A i, j \in 1..Len(dedupOut) :
              i # j => decode_item_rev(dedupOut[i], 0) # decode_item_rev(dedupOut[j], 0)
        /\ stStatus[1] = "done" =>
              \A pk \in PKs(nDocs) :
                  (/\ eligibleParts(pk) # {}
                   /\ KeyLE(lowerBoundOf(plan, getBounds(scans, scanID)), eligibleEntry(pk))
                   /\ KeyLT(eligibleEntry(pk), upperBound))
                  => \E i \in 1..Len(dedupOut) : dedupOut[i] = eligibleEntry(pk)

\* a resumed execution began between the two entries of document 10 on a, and
\* its dedup stage emitted the document at the second
C15_Witness ==
    /\ nTransactions >= 1
    /\ indexOf(plan) = "a"
    /\ Len(scans) = 1
    /\ KeyLT(<<1, 10>>, scans[1].begin) /\ KeyLT(scans[1].begin, <<3, 10>>)
    /\ Len(outLog) >= 2
    /\ \E i \in 1..Len(dedupOut) : dedupOut[i] = <<3, 10>>


-----------------------------------------------------------------------------
(* The update operators: doUpdate, projectAndUpdate and findAndModify, each
   on an input stream that yields the documents of its subplan and then
   end_of_stream.  A document on the input holds a permit its scan took. *)

\* ScanReturnedContext(inserted, -1, FDB::Key())
InsertedDoc == ScanReturnedContext(91, -1, NoKey)

\* output.send(d) of a document carrying the projection pj
Emit(out, d, pj) == Append(out, [doc |-> d, proj |-> pj])

\* output.sendError(end_of_stream())
EmitEOS(out) == Append(out, [doc |-> EndOfStream, proj |-> "none"])

updConfig == <<opKind, limit, upsertOp, projectNew>>

\* doUpdate: when(doc = waitNext(input)), a document arrives
doUpdate_waitNext ==
    /\ opKind = "update" /\ uPc = "loop"
    /\ input # <<>> /\ uPermits > 0
    /\ uPermits' = uPermits - 1
    /\ input' = Tail(input)
    /\ uFutures' = Append(uFutures, Head(input))
    /\ updated' = Append(updated, Head(input))
    /\ count' = count + 1
    /\ uPc' = IF count + 1 >= limit THEN "drain" ELSE "loop"
    /\ UNCHANGED <<ctrVars, idxVars, mergeVars, unionVars, metaVars, execVars, pureVars, cancelLog, updConfig, firstDoc, any, proj, inserted, uOutput, uHeld,
                   uTransactions>>

\* doUpdate: waitNext(input) throws end_of_stream
doUpdate_eos ==
    /\ opKind = "update" /\ uPc = "loop"
    /\ input = <<>>
    /\ uPc' = "drain"
    /\ UNCHANGED <<ctrVars, idxVars, mergeVars, unionVars, metaVars, execVars, pureVars, cancelLog, updConfig, input, count, uFutures, firstDoc, any, proj,
                   updated, inserted, uOutput, uPermits, uHeld, uTransactions>>

\* doUpdate: the update at the head of `futures` is done, in the loop or after it
doUpdate_ready ==
    /\ opKind = "update" /\ uPc \in {"loop", "drain"}
    /\ uFutures # <<>>
    /\ uOutput' = Emit(uOutput, Head(uFutures), "none")
    /\ uFutures' = Tail(uFutures)
    /\ uHeld' = uHeld + 1
    /\ UNCHANGED <<ctrVars, idxVars, mergeVars, unionVars, metaVars, execVars, pureVars, cancelLog, updConfig, input, uPc, count, firstDoc, any, proj, updated,
                   inserted, uPermits, uTransactions>>

\* a doUpdate that upserts whenever an upsertOp is given
doUpdate_end_upserting ==
    /\ opKind = "update" /\ uPc = "drain"
    /\ uFutures = <<>>
    /\ upsertOp => uPermits > 0
    /\ IF upsertOp
       THEN /\ uPermits' = uPermits - 1
            /\ inserted' = inserted + 1
            /\ uOutput' = EmitEOS(Emit(uOutput, InsertedDoc, "none"))
            /\ uHeld' = uHeld + 1
       ELSE /\ uOutput' = EmitEOS(uOutput)
            /\ UNCHANGED <<uPermits, inserted, uHeld>>
    /\ uPc' = "done"
    /\ UNCHANGED <<ctrVars, idxVars, mergeVars, unionVars, metaVars, execVars, pureVars, cancelLog, updConfig, input, count, uFutures, firstDoc, any, proj,
                   updated, uTransactions>>

\* doUpdate: `futures` is empty; the upsert, then throw end_of_stream()
doUpdate_end ==
    /\ opKind = "update" /\ uPc = "drain"
    /\ uFutures = <<>>
    /\ (upsertOp /\ count = 0) => uPermits > 0
    /\ IF upsertOp /\ count = 0
       THEN /\ uPermits' = uPermits - 1
            /\ inserted' = inserted + 1
            /\ uOutput' = EmitEOS(Emit(uOutput, InsertedDoc, "none"))
            /\ uHeld' = uHeld + 1
       ELSE /\ uOutput' = EmitEOS(uOutput)
            /\ UNCHANGED <<uPermits, inserted, uHeld>>
    /\ uPc' = "done"
    /\ UNCHANGED <<ctrVars, idxVars, mergeVars, unionVars, metaVars, execVars, pureVars, cancelLog, updConfig, input, count, uFutures, firstDoc, any, proj,
                   updated, uTransactions>>

\* projectAndUpdate: next = waitNext(input) returns a document
projectAndUpdate_waitNext ==
    /\ opKind = "projectAndUpdate" /\ uPc = "loop"
    /\ input # <<>> /\ uPermits > 0
    /\ uPermits' = uPermits - 1
    /\ input' = Tail(input)
    /\ firstDoc' = Head(input)
    /\ any' = TRUE
    /\ uPc' = "act"
    /\ UNCHANGED <<ctrVars, idxVars, mergeVars, unionVars, metaVars, execVars, pureVars, cancelLog, updConfig, count, uFutures, proj, updated, inserted,
                   uOutput, uHeld, uTransactions>>

\* projectAndUpdate: waitNext(input) throws end_of_stream
projectAndUpdate_eos ==
    /\ opKind = "projectAndUpdate" /\ uPc = "loop"
    /\ input = <<>>
    /\ any' = FALSE
    /\ uPc' = "act"
    /\ UNCHANGED <<ctrVars, idxVars, mergeVars, unionVars, metaVars, execVars, pureVars, cancelLog, updConfig, input, count, uFutures, firstDoc, proj, updated,
                   inserted, uOutput, uPermits, uHeld, uTransactions>>

\* the projection the operator holds when it sends: of the document before the
\* update, of the document after the update or the insert, or none
projected == IF ~projectNew /\ any THEN "old"
             ELSE IF projectNew /\ (any \/ upsertOp) THEN "new"
             ELSE "none"

\* the document the operator holds after the update or the insert
modified == IF any THEN firstDoc ELSE IF upsertOp THEN InsertedDoc ELSE firstDoc

\* projectAndUpdate: project, update or insert, commitChanges, project, send
projectAndUpdate_rest ==
    /\ opKind = "projectAndUpdate" /\ uPc = "act"
    /\ (~any /\ upsertOp) => uPermits > 0
    /\ updated' = IF any THEN Append(updated, firstDoc) ELSE updated
    /\ inserted' = IF ~any /\ upsertOp THEN inserted + 1 ELSE inserted
    /\ uPermits' = IF ~any /\ upsertOp THEN uPermits - 1 ELSE uPermits
    /\ firstDoc' = modified
    /\ proj' = projected
    /\ IF any \/ (projectNew /\ upsertOp)
       THEN /\ uOutput' = EmitEOS(Emit(uOutput, modified, projected))
            /\ uHeld' = uHeld + 1
       ELSE /\ uOutput' = EmitEOS(uOutput)
            /\ UNCHANGED uHeld
    /\ uPc' = "done"
    /\ UNCHANGED <<ctrVars, idxVars, mergeVars, unionVars, metaVars, execVars, pureVars, cancelLog, updConfig, input, count, uFutures, any, uTransactions>>

\* findAndModify: doc = waitNext(docs) returns a document of the inner
\* checkpoint, whose permit is released at once
findAndModify_waitNext ==
    /\ opKind = "findAndModify" /\ uPc = "loop"
    /\ input # <<>>
    /\ input' = Tail(input)
    /\ firstDoc' = Head(input)
    /\ any' = TRUE
    /\ uPc' = "act"
    /\ UNCHANGED <<ctrVars, idxVars, mergeVars, unionVars, metaVars, execVars, pureVars, cancelLog, updConfig, count, uFutures, proj, updated, inserted,
                   uOutput, uPermits, uHeld, uTransactions>>

\* findAndModify: waitNext(docs) throws end_of_stream
findAndModify_eos ==
    /\ opKind = "findAndModify" /\ uPc = "loop"
    /\ input = <<>>
    /\ any' = FALSE
    /\ uPc' = "act"
    /\ UNCHANGED <<ctrVars, idxVars, mergeVars, unionVars, metaVars, execVars, pureVars, cancelLog, updConfig, input, count, uFutures, firstDoc, proj, updated,
                   inserted, uOutput, uPermits, uHeld, uTransactions>>

\* a findAndModify whose timeout also ends the segment in which it holds a document
findAndModify_timeout_holdingDocument ==
    /\ opKind = "findAndModify" /\ uPc \in {"loop", "act"}
    /\ uTransactions < MaxSegs
    /\ storeMeta.version = metadataVersion
    /\ uTransactions' = uTransactions + 1
    /\ UNCHANGED <<ctrVars, idxVars, mergeVars, unionVars, metaVars, execVars, pureVars, cancelLog, updConfig, input, uPc, count, uFutures, firstDoc, any,
                   proj, updated, inserted, uOutput, uPermits, uHeld>>

\* findAndModify: the timeout fires first; stopAndCheckpoint, a new
\* transaction, and the subplan runs again from where it was
findAndModify_timeout ==
    /\ opKind = "findAndModify" /\ uPc = "loop"
    /\ uTransactions < MaxSegs
    /\ storeMeta.version = metadataVersion
    /\ uTransactions' = uTransactions + 1
    /\ UNCHANGED <<ctrVars, idxVars, mergeVars, unionVars, metaVars, execVars, pureVars, cancelLog, updConfig, input, uPc, count, uFutures, firstDoc, any,
                   proj, updated, inserted, uOutput, uPermits, uHeld>>

\* a findAndModify that projects and sends the inserted document in any case
findAndModify_rest_sendingInserted ==
    /\ opKind = "findAndModify" /\ uPc = "act"
    /\ uPermits > 0
    /\ uPermits' = uPermits - 1
    /\ updated' = IF any THEN Append(updated, firstDoc) ELSE updated
    /\ inserted' = IF ~any /\ upsertOp THEN inserted + 1 ELSE inserted
    /\ firstDoc' = modified
    /\ proj' = IF any \/ ~upsertOp THEN projected ELSE "new"
    /\ IF any \/ upsertOp
       THEN /\ uOutput' = EmitEOS(Emit(uOutput, modified, IF any THEN projected ELSE "new"))
            /\ uHeld' = uHeld + 1
       ELSE /\ uOutput' = EmitEOS(uOutput)
            /\ UNCHANGED uHeld
    /\ uPc' = "done"
    /\ UNCHANGED <<ctrVars, idxVars, mergeVars, unionVars, metaVars, execVars, pureVars, cancelLog, updConfig, input, count, uFutures, any, uTransactions>>

\* findAndModify: stop, project, update or insert, commitChanges, project,
\* commit, outerLock->take(), send
findAndModify_rest ==
    /\ opKind = "findAndModify" /\ uPc = "act"
    /\ uPermits > 0
    /\ uPermits' = uPermits - 1
    /\ updated' = IF any THEN Append(updated, firstDoc) ELSE updated
    /\ inserted' = IF ~any /\ upsertOp THEN inserted + 1 ELSE inserted
    /\ firstDoc' = modified
    /\ proj' = projected
    /\ IF any \/ (projectNew /\ upsertOp)
       THEN /\ uOutput' = EmitEOS(Emit(uOutput, modified, projected))
            /\ uHeld' = uHeld + 1
       ELSE /\ uOutput' = EmitEOS(uOutput)
            /\ UNCHANGED uHeld
    /\ uPc' = "done"
    /\ UNCHANGED <<ctrVars, idxVars, mergeVars, unionVars, metaVars, execVars, pureVars, cancelLog, updConfig, input, count, uFutures, any, uTransactions>>

\* the consumer of the operator's output finishes a document
uConsume ==
    /\ uHeld > 0
    /\ uHeld' = uHeld - 1
    /\ uPermits' = uPermits + 1
    /\ UNCHANGED <<ctrVars, idxVars, mergeVars, unionVars, metaVars, execVars, pureVars, cancelLog, updConfig, input, uPc, count, uFutures, firstDoc, any,
                   proj, updated, inserted, uOutput, uTransactions>>

InitUpdate ==
    /\ plan = Plan("table", None, None, <<>>, "none")
    /\ InitExec
    /\ InitPure
    /\ InitMetadata /\ InitNoIndexInsert /\ InitNoCounters
    /\ InitNoUnion
    /\ isReadOnly = FALSE
    /\ cancelLog = <<>>
    /\ opKind \in {"update", "projectAndUpdate", "findAndModify"}
    /\ limit \in 0..2
    /\ opKind # "update" => limit = 1
    /\ upsertOp \in BOOLEAN
    /\ projectNew \in BOOLEAN
    /\ opKind = "update" => projectNew = FALSE
    /\ input = [i \in 1..nDocs |-> ScanReturnedContext(PKOf(i), 0, <<PKOf(i)>>)]
    /\ uPc = "loop"
    /\ count = 0
    /\ uFutures = <<>>
    /\ firstDoc = NoDoc
    /\ any = FALSE
    /\ proj = "none"
    /\ updated = <<>>
    /\ inserted = 0
    /\ uOutput = <<>>
    /\ uPermits = FLOW_CONTROL_LOCK_PERMITS
    /\ uHeld = 0
    /\ uTransactions = 0

NextUpdate ==
    \/ doUpdate_waitNext
    \/ doUpdate_eos
    \/ doUpdate_ready
    \/ doUpdate_end
    \/ projectAndUpdate_waitNext
    \/ projectAndUpdate_eos
    \/ projectAndUpdate_rest
    \/ findAndModify_waitNext
    \/ findAndModify_eos
    \/ findAndModify_timeout
    \/ findAndModify_rest
    \/ uConsume

SpecUpdate == InitUpdate /\ [][NextUpdate]_vars

\* the documents (not end_of_stream) the operator has sent
emitted == SelectSeq(uOutput, LAMBDA e : e.doc # EndOfStream)

\* C16: UpdatePlan with limit = 0 performs no update and emits no document
\* other than the one its upsert inserted
C16_LimitZeroUpdatesNothing ==
    (opKind = "update" /\ limit = 0) =>
        /\ updated = <<>>
        /\ \A i \in 1..Len(emitted) : emitted[i].doc = InsertedDoc

\* C17: an update operator that has ended has inserted exactly one document
\* when its subplan yielded none and an upsertOp is provided, and none otherwise;
\* it never inserts before its input has ended
C17_UpsertIffEmptyInput ==
    /\ uPc = "done" => inserted = (IF nDocs = 0 /\ upsertOp THEN 1 ELSE 0)
    /\ uPc # "done" => inserted = 0

\* findAndModify has upserted after its subplan, stopped and resumed once,
\* found no document
C17_Witness ==
    /\ opKind = "findAndModify" /\ uPc = "done"
    /\ nDocs = 0 /\ upsertOp /\ uTransactions >= 1
    /\ inserted = 1 /\ updated = <<>>


\* findAndModify has ended, its subplan found no document and an upsertOp is given
upsertedNothingFound ==
    opKind = "findAndModify" /\ uPc = "done" /\ nDocs = 0 /\ upsertOp

\* C18 (as stated): when findAndModify finds no document and an upsert is
\* supplied, it emits exactly the projected inserted document and then
\* end_of_stream
C18_UpsertProjectedAndEmitted ==
    upsertedNothingFound => uOutput = EmitEOS(Emit(<<>>, InsertedDoc, "new"))

\* C18 (amended): when findAndModify finds no document and an upsert is
\* supplied, it emits exactly the projected inserted document and then
\* end_of_stream if projectNew is set, and end_of_stream alone if it is not
C18_UpsertEmittedIfProjectNew ==
    upsertedNothingFound =>
        uOutput = IF projectNew THEN EmitEOS(Emit(<<>>, InsertedDoc, "new"))
                  ELSE EmitEOS(<<>>)

\* findAndModify with projectNew has inserted a document and emitted it
C18_Witness ==
    /\ upsertedNothingFound /\ projectNew
    /\ inserted = 1
    /\ Len(emitted) = 1 /\ emitted[1].doc = InsertedDoc /\ emitted[1].proj = "new"


-----------------------------------------------------------------------------
(* Scans of the primary-key space, read-only and non-isolated, with no stage
   above the leaf: TableScanPlan and PrimaryKeyLookupPlan *)

PlansScan ==
    {Plan("table", None, None, <<>>, "none"),
     Plan("pk", <<10>>, <<20>>, <<>>, "none"),
     Plan("pk", <<20>>, None, <<>>, "none"),
     Plan("pk", <<30>>, <<10>>, <<>>, "none"),
     Plan("pk", <<20>>, <<20>>, <<>>, "none")}

InitScan == plan \in PlansScan /\ InitCommon /\ InitPure /\ isReadOnly = TRUE

NextScan ==
    \/ doPKScan_waitNext
    \/ doPKScan_take
    \/ was_end_of_stream
    \/ doSinglePKLookup_get
    \/ doNonIsolatedRO_execute
    \/ doNonIsolatedRO_waitNext
    \/ doNonIsolatedRO_take
    \/ doNonIsolatedRO_end
    \/ doNonIsolatedRO_timeout
    \/ consume

SpecScan == InitScan /\ [][NextScan]_vars

\* the leaf of the current execution was given an empty range: beginKey =
\* endKey for a range read, x outside the bounds for a single lookup
emptyEffectiveRange ==
    LET b == getBounds(scans, scanID)
    IN  IF isPointLookup(plan)
        THEN ~(KeyLE(b.begin, plan.begin) /\ KeyLT(plan.begin, b.end))
        ELSE lowerBoundOf(plan, b) = upperBound

\* the leaf task has sent end_of_stream and nothing else
endedEmpty ==
    /\ scanPc = "done"
    /\ outLog = <<<<>>>>
    /\ docs \in {<<EndOfStream>>, <<>>}
    /\ docs = <<>> => wPc = "done"

\* C19: the range a leaf reads is never inverted, and a leaf whose effective
\* range is empty sends no document: it has no key to read and either is about
\* to throw end_of_stream or has sent it
C19_EmptyRangeEmitsNothing ==
    scanPc # "dead" =>
        /\ ~isPointLookup(plan) =>
               KeyLE(lowerBoundOf(plan, getBounds(scans, scanID)), upperBound)
        /\ emptyEffectiveRange =>
               /\ kvs = <<>>
               /\ outLog = <<<<>>>>
               /\ scanPc = "waitKV" \/ endedEmpty

\* a table scan or range lookup resumed on a checkpoint whose begin is 0xFF
\* has ended without a document
C19_Witness ==
    /\ nTransactions >= 1
    /\ ~isPointLookup(plan)
    /\ Len(scans) = 1 /\ scans[1].begin = KeyFF
    /\ emptyEffectiveRange
    /\ endedEmpty /\ docs = <<EndOfStream>>


-----------------------------------------------------------------------------
\* C20: of the errors a stop() sends on operators' outputs none comes from a
\* cancelled task; the only one is operation_cancelled, sent once, after the
\* tasks were cancelled, on the output of the last registered operation
C20_OnlyOperationCancelled ==
    /\ Len(cancelLog) <= 1
    /\ \A i \in 1..Len(cancelLog) :
          /\ cancelLog[i].error = "operation_cancelled"
          /\ cancelLog[i].op = NStages + 1

-----------------------------------------------------------------------------
\* is the i-th document stage k holds the earliest one it holds of its scan?
earliestHeld(k, i) ==
    \A j \in 1..(i - 1) : futures[k][j].doc.sid # futures[k][i].doc.sid

\* C21: a stage task cancelled with boundsWanted true while it holds documents
\* it has received and not yet sent leaves, for each scan it holds a document
\* of, splitBound(scanId) = the scanKey of its earliest held document of that
\* scan (it writes the held documents' keys in reverse output order).
C21_HeldDocsWriteSplits ==
    \A k \in 1..Len(futures) :
        stStatus[k] \in {"run", "drain"} =>
            LET sc == cancel_stage(scans, k, StageKinds(plan)[k])
            IN  \A i \in 1..Len(futures[k]) :
                    earliestHeld(k, i) =>
                        sc[futures[k][i].doc.sid + 1].split = futures[k][i].doc.key

-----------------------------------------------------------------------------
\* the stages that hold a document of scan s when stop() cancels them
holdersOf(s) ==
    {k \in 1..Len(futures) : /\ stStatus[k] \in {"run", "drain"}
                             /\ \E i \in 1..Len(futures[k]) : futures[k][i].doc.sid = s}

\* the scanKey of the earliest document of scan s that stage k holds
earliestKeyHeld(k, s) ==
    LET i == CHOOSE i \in 1..Len(futures[k]) :
                 /\ futures[k][i].doc.sid = s
                 /\ earliestHeld(k, i)
    IN  futures[k][i].doc.key

\* C22: stop() cancels the tasks in registration order, inputs first, so after
\* stopAndCheckpoint() the split of scan s is the value written by the most
\* downstream task that held a document of s, the scanKey of the earliest
\* document of s not yet delivered; an upstream task's value is never final
\* when a downstream task also held a document of s.
C22_MostDownstreamHolderWins ==
    [][(wPc = "choose" /\ wPc' = "meta") =>
          \A s \in 0..(Len(scans) - 1) :
              holdersOf(s) # {} =>
                  LET k == CHOOSE k \in holdersOf(s) : \A j \in holdersOf(s) : j <= k
                  IN  scans'[s + 1].begin = earliestKeyHeld(k, s)]_vars

-----------------------------------------------------------------------------
\* a value no handler writes: it marks the splits before stop() runs
Unwritten == <<252>>

\* does some task write split[s] when stop() runs now with boundsWanted true?
splitWritten(s, ub) ==
    LET marked == [i \in 1..Len(scans) |-> [scans[i] EXCEPT !.split = Unwritten]]
        after == cancel_ops(cancel_leaf(marked, ub), 1, StageKinds(plan))
    IN  after[s + 1].split # Unwritten

\* the wrapper is where its timeout can fire: the inner checkpoint is stopped
\* by stopAndCheckpoint() in the next step
timeoutEnabled == wPc = "choose" /\ docs = <<>> /\ scanPc # "dead"

\* scan s has emitted every document of its bounds, and the tasks hold none
scanCompleted(s) == scanPc = "done" /\ holdersOf(s) = {}

\* C23: if no task writes split[s] during stopAndCheckpoint() then scan s had
\* completed (and split[s] is the sentinel 0xFF); a scan cancelled before it
\* emitted all its documents, the point lookup waiting for its read or its
\* permit included, has split[s] written by some task.
C23_UnwrittenSplitMeansCompleted ==
    timeoutEnabled =>
        \A ub \in (IF splitIsUndefined THEN UndefinedSplits \ {Abort} ELSE {NoKey}) :
            /\ ~splitWritten(scanID, ub) =>
                   scanCompleted(scanID) /\ stop(ub)[scanID + 1].split = KeyFF
            /\ scanPc \in {"waitKV", "take", "waitGet"} => splitWritten(scanID, ub)

-----------------------------------------------------------------------------
\* the update operator is suspended on something that is not its input: doUpdate
\* in `while (!futures.empty()) wait(futures.front().second)`, projectAndUpdate
\* in the waits that follow its waitNext(input)
suspendedOffInput ==
    \/ opKind = "update" /\ uPc = "drain" /\ uFutures # <<>>
    \/ opKind = "projectAndUpdate" /\ uPc = "act"

\* C24: a task with an input stream waits on that stream at each of its
\* suspension points until the input has ended (Update after its limit is
\* reached and ProjectAndUpdate after its first document included), so that no
\* document the upstream task sends sits unread in the stream.
C24_AlwaysWaitingOnInput == suspendedOffInput => input = <<>>

-----------------------------------------------------------------------------
(* doNonIsolatedRO on a store whose reads may fail with a retryable error *)

\* the error transaction_too_old, as an item of a stream
TransactionTooOld == [pk |-> 0, sid |-> -7, key |-> NoKey]

\* a read of the leaf fails with transaction_too_old: the leaf and every stage
\* send the error on, waitNext(docs) throws it, and the catch of line 752 does
\* innerCheckpoint->stop(); output.sendError(e); throw
doNonIsolatedRO_subPlanError ==
    /\ wPc = "choose" /\ docs = <<>>
    /\ scanPc \in {"waitKV", "waitGet"}
    /\ tasks_gone
    /\ cancelLog' = stopError
    /\ output' = Append(output, TransactionTooOld)
    /\ wPc' = "failed"
    /\ scans' = stopUnder(FALSE, NoKey)
    /\ UNCHANGED <<ctrVars, idxVars, mergeVars, unionVars, metaVars, pureVars, updVars, txnVars, plan, nDocs, states, permits, scanID, upperBound, doc,
                   outerPermits, nTransactions>>

NextROError ==
    \/ Next
    \/ doNonIsolatedRO_subPlanError

SpecROError == Init /\ [][NextROError]_vars

\* C25: a retryable error raised inside a segment of the read-only NonIsolated
\* execution is not delivered to the wrapper's output: the segment is restarted
\* on a new transaction from its checkpoint and the query continues.
C25_RetryableErrorNotSurfaced ==
    /\ \A i \in 1..Len(output) : output[i] # TransactionTooOld
    /\ wPc # "failed"

-----------------------------------------------------------------------------
(* The metadata check at a segment boundary: doNonIsolatedRO lines 736-748,
   doNonIsolatedRW lines 869-881, findAndModify lines 1210-1222, on a
   collection whose metadata other clients change *)

MaxVersions == 2

\* the errors collection_metadata_changed and metadata_changed_nonisolated, as
\* items of a stream
CollectionMetadataChanged == [pk |-> 0, sid |-> -6, key |-> NoKey]

MetadataChangedNonisolated == [pk |-> 0, sid |-> -5, key |-> NoKey]

\* output.sendError(e) on the output of an update operator
EmitError(out, e) == Append(out, [doc |-> e, proj |-> "none"])

\* another client changes the metadata of the collection: the version grows,
\* the directories of the collection may move away from the ones `cx` names
\* (for good: cx is never refreshed), and the subplan may or may not allow the
\* new context
changeMetadata ==
    /\ storeMeta.version < MaxVersions
    /\ \E m \in BOOLEAN, o \in BOOLEAN :
          storeMeta' = [version |-> storeMeta.version + 1,
                        moved |-> storeMeta.moved \/ m,
                        okay |-> o]
    /\ UNCHANGED <<ctrVars, idxVars, mergeVars, unionVars, isReadOnly, metadataVersion, execVars, pureVars, updVars, cancelLog>>

\* a test that asks the subplan only
metadataVerdict_ignoringDirectory ==
    IF storeMeta.okay THEN "accept" ELSE "metadata_changed_nonisolated"

\* what the test of newCx does: the error it throws, or "accept"
metadataVerdict ==
    IF storeMeta.moved THEN "collection_metadata_changed"
    ELSE IF storeMeta.okay THEN "accept"
    ELSE "metadata_changed_nonisolated"

errorItem(verdict) ==
    IF verdict = "collection_metadata_changed" THEN CollectionMetadataChanged
    ELSE MetadataChangedNonisolated

\* the catch of the wrapper: innerCheckpoint->stop() on the checkpoint
\* stopAndCheckpoint() returned (no task is registered), output.sendError(e)
wrapperFails(e) ==
    /\ wPc' = "failed"
    /\ output' = Append(output, e)
    /\ cancelLog' = <<>>
    /\ UNCHANGED <<metadataVersion, scans, scansAdded, stateAdded, ops, permits, scanPc, scanID, kvs, curKV,
                   lastKey, lastPK, upperBound, futures, states, stStatus, docs, outLog, nTransactions>>

\* doNonIsolatedRO at a segment boundary, newMetadataVersion != metadataVersion
doNonIsolatedRO_metadataChanged ==
    /\ wPc = "meta" /\ storeMeta.version # metadataVersion
    /\ IF metadataVerdict = "accept"
       THEN /\ metadataVersion' = storeMeta.version
            /\ execute(scans, states, scansAdded, stateAdded, ops, permits)
            /\ wPc' = "choose"
            /\ nTransactions' = nTransactions + 1
            /\ UNCHANGED <<output, cancelLog>>
       ELSE wrapperFails(errorItem(metadataVerdict))
    /\ UNCHANGED <<ctrVars, idxVars, mergeVars, unionVars, isReadOnly, storeMeta, pureVars, updVars, txnVars, plan, nDocs, doc, outerPermits>>

\* doNonIsolatedRW at the end of its loop, newMetadataVersion != metadataVersion
doNonIsolatedRW_metadataChanged ==
    /\ wPc = "meta" /\ storeMeta.version # metadataVersion
    /\ IF metadataVerdict = "accept"
       THEN /\ metadataVersion' = storeMeta.version
            /\ execute(scans, states, scansAdded, stateAdded, ops, permits)
            /\ wPc' = "choose"
            /\ committingDocs' = <<>>
            /\ bufferedDocs' = <<>>
            /\ finished' = FALSE
            /\ UNCHANGED <<output, cancelLog, nTransactions>>
       ELSE /\ wrapperFails(errorItem(metadataVerdict))
            /\ UNCHANGED <<committingDocs, bufferedDocs, finished>>
    /\ UNCHANGED <<ctrVars, idxVars, mergeVars, unionVars, isReadOnly, storeMeta, pureVars, updVars, plan, nDocs, doc, outerPermits, staged,
                   committed, lastCommit>>

\* findAndModify: the timeout fires first, and newMetadataVersion != metadataVersion
findAndModify_metadataChanged ==
    /\ opKind = "findAndModify" /\ uPc = "loop"
    /\ uTransactions < MaxSegs
    /\ storeMeta.version # metadataVersion
    /\ IF metadataVerdict = "accept"
       THEN /\ metadataVersion' = storeMeta.version
            /\ uTransactions' = uTransactions + 1
            /\ UNCHANGED <<uPc, uOutput>>
       ELSE /\ uPc' = "failed"
            /\ uOutput' = EmitError(uOutput, errorItem(metadataVerdict))
            /\ UNCHANGED <<metadataVersion, uTransactions>>
    /\ UNCHANGED <<ctrVars, idxVars, mergeVars, unionVars, isReadOnly, storeMeta, execVars, pureVars, cancelLog, updConfig, input, count, uFutures,
                   firstDoc, any, proj, updated, inserted, uPermits, uHeld>>

MaxDocsMeta == 2

\* NonIsolatedPlan, read-only or not, over the plans of PlansRW, or
\* FindAndModifyPlan over a table scan
InitMeta ==
    /\ \/ plan \in PlansRW /\ InitCommon /\ InitPure /\ isReadOnly \in BOOLEAN
       \/ InitUpdate /\ opKind = "findAndModify"
    /\ nDocs <= MaxDocsMeta

NextMeta ==
    \/ changeMetadata
    \/ opKind = "none" /\ subPlanTasks
    \/ opKind = "none" /\ consume
    \/ opKind = "none" /\ isReadOnly /\ doNonIsolatedRO_execute
    \/ opKind = "none" /\ isReadOnly /\ doNonIsolatedRO_waitNext
    \/ opKind = "none" /\ isReadOnly /\ doNonIsolatedRO_take
    \/ opKind = "none" /\ isReadOnly /\ doNonIsolatedRO_end
    \/ opKind = "none" /\ isReadOnly /\ doNonIsolatedRO_timeout
    \/ opKind = "none" /\ isReadOnly /\ doNonIsolatedRO_metadataChanged
    \/ opKind = "none" /\ ~isReadOnly /\ doNonIsolatedRW_execute
    \/ opKind = "none" /\ ~isReadOnly /\ doNonIsolatedRW_waitNext
    \/ opKind = "none" /\ ~isReadOnly
          /\ \E i \in 1..FLOW_CONTROL_LOCK_PERMITS : doNonIsolatedRW_changesReady(i)
    \/ opKind = "none" /\ ~isReadOnly /\ doNonIsolatedRW_stop
    \/ opKind = "none" /\ ~isReadOnly /\ doNonIsolatedRW_commit
    \/ opKind = "none" /\ ~isReadOnly /\ doNonIsolatedRW_send
    \/ opKind = "none" /\ ~isReadOnly /\ doNonIsolatedRW_onError
    \/ opKind = "none" /\ ~isReadOnly /\ doNonIsolatedRW_metadataChanged
    \/ findAndModify_waitNext
    \/ findAndModify_eos
    \/ findAndModify_timeout
    \/ findAndModify_rest
    \/ findAndModify_metadataChanged
    \/ opKind = "findAndModify" /\ uConsume

SpecMeta == InitMeta /\ [][NextMeta]_vars


\* the wrapper is at a segment boundary and has the answer of getMetadataVersion()
atBoundary == opKind = "none" /\ wPc = "meta"

\* the wrapper leaves the boundary in this step
leavesBoundary == atBoundary /\ wPc' # "meta"

\* findAndModify passes a segment boundary in this step
famBoundary ==
    /\ opKind = "findAndModify" /\ uPc = "loop"
    /\ (uTransactions' # uTransactions \/ uPc' = "failed")

\* C26: at every segment boundary the wrappers (NonIsolated, read-only or not,
\* and FindAndModify) compare the version V' of the new transaction with the
\* accepted V.  V' = V: the next segment runs.  V' # V and a directory of the
\* collection changed: collection_metadata_changed.  V' # V and
\* wasMetadataChangeOkay(newCx) is false: metadata_changed_nonisolated.
\* Otherwise V becomes V' and the next segment runs.  After either error no
\* further document is emitted.
C26_MetadataCheckedAtBoundary ==
    [][/\ leavesBoundary =>
             IF storeMeta.version = metadataVersion
             THEN wPc' = "choose" /\ metadataVersion' = metadataVersion /\ output' = output
             ELSE IF storeMeta.moved
             THEN wPc' = "failed" /\ output' = Append(output, CollectionMetadataChanged)
             ELSE IF ~storeMeta.okay
             THEN wPc' = "failed" /\ output' = Append(output, MetadataChangedNonisolated)
             ELSE wPc' = "choose" /\ metadataVersion' = storeMeta.version /\ output' = output
       /\ famBoundary =>
             IF storeMeta.version = metadataVersion
             THEN uPc' = "loop" /\ metadataVersion' = metadataVersion /\ uOutput' = uOutput
             ELSE IF storeMeta.moved
             THEN uPc' = "failed" /\ uOutput' = EmitError(uOutput, CollectionMetadataChanged)
             ELSE IF ~storeMeta.okay
             THEN uPc' = "failed" /\ uOutput' = EmitError(uOutput, MetadataChangedNonisolated)
             ELSE uPc' = "loop" /\ metadataVersion' = storeMeta.version /\ uOutput' = uOutput
       /\ wPc = "failed" => output' = output /\ wPc' = "failed"
       /\ uPc = "failed" => uOutput' = uOutput /\ uPc' = "failed"]_vars

\* the read-write wrapper has emitted the documents of a segment, accepted one
\* change of the metadata at a boundary and refused the next one
C26_Witness ==
    /\ opKind = "none" /\ ~isReadOnly /\ wPc = "failed"
    /\ metadataVersion = 1 /\ storeMeta.version = 2
    /\ Len(output) > 1
    /\ output[Len(output)] = MetadataChangedNonisolated

-----------------------------------------------------------------------------
(* SkipPlan under doNonIsolatedRO, and a doNonIsolatedRO that is cancelled
   by its own caller while the tasks of its subplan are running *)

\* the error actor_cancelled, as an item of a stream
ActorCancelled == [pk |-> 0, sid |-> -4, key |-> NoKey]

PlansSkip ==
    {Plan("table", None, None, st, "none") :
        st \in {<<"skip">>, <<"filter", "skip">>, <<"skip", "filter">>}}

InitSkip == plan \in PlansSkip /\ InitCommon /\ InitPure /\ isReadOnly = TRUE

\* doNonIsolatedRO is cancelled at one of its waits: the catch of line 752 does
\* innerCheckpoint->stop() and output.sendError(e)
doNonIsolatedRO_cancelled ==
    /\ wPc \in {"choose", "take"}
    /\ scans' = stopUnder(FALSE, NoKey)
    /\ tasks_gone
    /\ cancelLog' = cancelErrors
    /\ output' = Append(output, ActorCancelled)
    /\ wPc' = "cancelled"
    /\ UNCHANGED <<ctrVars, idxVars, mergeVars, unionVars, metaVars, pureVars, updVars, txnVars, plan, nDocs, states, permits, scanID,
                   upperBound, doc, outerPermits, nTransactions>>

NextSkip ==
    \/ doPKScan_waitNext
    \/ doPKScan_take
    \/ was_end_of_stream
    \/ \E k \in 1..2 : \E i \in 1..MaxDocs : stage_ready(k, i)
    \/ doNonIsolatedRO_execute
    \/ doNonIsolatedRO_waitNext
    \/ doNonIsolatedRO_take
    \/ doNonIsolatedRO_end
    \/ doNonIsolatedRO_timeout
    \/ doNonIsolatedRO_cancelled
    \/ consume

SpecSkip == InitSkip /\ [][NextSkip]_vars


\* a step in which doNonIsolatedRO calls innerCheckpoint->stop() outside
\* stopAndCheckpoint: its cancellation, or the end of the stream
plainStopStep == wPc \in {"choose", "take"} /\ wPc' \in {"cancelled", "done"}

stopAndCheckpointStep == wPc = "choose" /\ wPc' = "meta"

-----------------------------------------------------------------------------
(* UnionPlan over table scans: the scan IDs of the leaves over the executions
   of one plan on a checkpoint, on the checkpoints stopAndCheckpoint() returns
   and again on a stopped checkpoint.  The documents of the leaves are taken
   as consumed at once: doUnion sends on what arrives. *)

MaxDocsUnion == 2

TableScan(l) == <<"TableScan", l>>

Union(plan1, plan2) == <<"Union", plan1, plan2>>

\* the trees, their leaves named by their position from the left
PlansUnion ==
    { Union(TableScan(1), TableScan(2)),
      Union(Union(TableScan(1), TableScan(2)), TableScan(3)),
      Union(TableScan(1), Union(TableScan(2), TableScan(3))) }

RECURSIVE LeavesOf(_)
LeavesOf(p) == IF p[1] = "TableScan" THEN {p[2]} ELSE LeavesOf(p[2]) \cup LeavesOf(p[3])

\* TableScanPlan::execute on the checkpoint cp = [sc, added, id, b]: addScan()
\* and getBounds(scanID)
TableScanPlan_execute(l, cp) ==
    LET sc1 == addScan(cp.sc, cp.added)
    IN  [sc |-> sc1, added |-> cp.added + 1,
         id |-> [cp.id EXCEPT ![l] = cp.added],
         b |-> [cp.b EXCEPT ![l] = getBounds(sc1, cp.added)]]

\* Plan::execute on the tree p: UnionPlan::execute passes plan1->execute(..) and
\* plan2->execute(..) as arguments of one call, and the build evaluates them in
\* the order `order`
RECURSIVE UnionPlan_execute(_, _, _)
UnionPlan_execute(p, order, cp) ==
    IF p[1] = "TableScan" THEN TableScanPlan_execute(p[2], cp)
    ELSE IF order = "plan1"
    THEN UnionPlan_execute(p[3], order, UnionPlan_execute(p[2], order, cp))
    ELSE UnionPlan_execute(p[2], order, UnionPlan_execute(p[3], order, cp))

\* a stop() that leaves scansAdded as it is
scansAddedAfterStop_kept(added) == added

\* scansAdded after stop(): line 1905
scansAddedAfterStop(added) == 0

InitUnion ==
    /\ plan \in PlansUnion
    /\ InitExec /\ InitNoUpdate /\ cancelLog = <<>> /\ InitMetadata /\ InitNoIndexInsert /\ InitNoCounters /\ InitPure
    /\ isReadOnly = TRUE
    /\ nDocs \in 1..MaxDocsUnion
    /\ argOrder \in {"plan1", "plan2"}
    /\ leafID = [l \in LeavesOf(plan) |-> -1]
    /\ leafBounds = [l \in LeavesOf(plan) |-> [begin |-> NoKey, end |-> KeyFF]]
    /\ leafLast = [l \in LeavesOf(plan) |-> NoKey]
    /\ leafPc = [l \in LeavesOf(plan) |-> "dead"]
    /\ firstID = [l \in LeavesOf(plan) |-> -1]
    /\ ownSplit = [l \in LeavesOf(plan) |-> ScanCheckpoint.begin]
    /\ InitNoDoUnion

unionFrame ==
    UNCHANGED <<ctrVars, idxVars, mergeVars, metaVars, pureVars, updVars, cancelLog, txnVars, nDocs, states, stateAdded,
                permits, scanPc, scanID, kvs, curKV, lastKey, lastPK, upperBound, futures,
                stStatus, docs, outLog, doc, outerPermits, output, argOrder, plan>>

\* subPlan->execute(innerCheckpoint, tr) of the wrapper, on a fresh checkpoint,
\* on the one stopAndCheckpoint() returned or on a stopped one
union_execute ==
    /\ wPc \in {"start", "meta", "stopped"}
    /\ LET r == UnionPlan_execute(plan, argOrder,
                    [sc |-> scans, added |-> scansAdded, id |-> leafID, b |-> leafBounds])
       IN  /\ scans' = r.sc
           /\ scansAdded' = r.added
           /\ leafID' = r.id
           /\ leafBounds' = r.b
           /\ firstID' = IF wPc = "start" THEN r.id ELSE firstID
    /\ leafLast' = [l \in LeavesOf(plan) |-> NoKey]
    /\ leafPc' = [l \in LeavesOf(plan) |-> "run"]
    /\ ops' = [i \in 1..(2 * Cardinality(LeavesOf(plan)) - 1) |-> i]
    /\ wPc' = "choose"
    /\ UNCHANGED <<nTransactions, ownSplit>>
    /\ unionFrame

\* the primary keys leaf l has yet to read: those of its range [beginKey, endKey)
\* after lastKey
pksLeft(l) ==
    {pk \in PKs(nDocs) :
        /\ ~KeyLT(<<pk>>, KeyMax(KeyZero, leafBounds[l].begin))
        /\ KeyLT(<<pk>>, KeyMin(KeyFF, leafBounds[l].end))
        /\ (leafLast[l] # NoKey => pk > leafLast[l][1])}

\* doPKScan of leaf l reads the keys of its next document
union_doPKScan_reads(l) ==
    /\ wPc = "choose" /\ l \in DOMAIN leafPc /\ leafPc[l] = "run"
    /\ pksLeft(l) # {}
    /\ LET pk == CHOOSE x \in pksLeft(l) : \A y \in pksLeft(l) : x <= y
       IN  leafLast' = [leafLast EXCEPT ![l] = <<pk, 1>>]
    /\ UNCHANGED <<scans, scansAdded, ops, wPc, nTransactions, leafID, leafBounds, leafPc,
                   firstID, ownSplit>>
    /\ unionFrame

\* doPKScan of leaf l reaches the end of its range
union_doPKScan_ends(l) ==
    /\ wPc = "choose" /\ l \in DOMAIN leafPc /\ leafPc[l] = "run"
    /\ pksLeft(l) = {}
    /\ leafPc' = [leafPc EXCEPT ![l] = "done"]
    /\ UNCHANGED <<scans, scansAdded, ops, wPc, nTransactions, leafID, leafBounds, leafLast,
                   firstID, ownSplit>>
    /\ unionFrame

\* what the handler of doPKScan (lines 560-569) of leaf l leaves in its split
\* key when it is cancelled with boundsWanted: strinc(decode_bytes(lastKey)[0]),
\* ub standing for the outcome with an empty lastKey
splitOfLeaf(l, ub) ==
    IF leafLast[l] = NoKey THEN ub[l] ELSE strinc(decode_item(leafLast[l], 0))

\* the outcomes of that handler with an empty lastKey that a leaf of a tree
\* may have (a part of UndefinedSplits, to bound the product over the leaves)
UndefinedSplitsOfLeaves == {<<11>>, KeyFF, Abort}

RECURSIVE cancel_leaves(_, _, _)
cancel_leaves(sc, ls, ub) ==
    IF ls = {} THEN sc
    ELSE LET l == CHOOSE x \in ls : TRUE
         IN  cancel_leaves(IF leafPc[l] = "run"
                           THEN splitBound(sc, leafID[l], splitOfLeaf(l, ub))
                           ELSE sc,
                           ls \ {l}, ub)

\* innerCheckpoint = innerCheckpoint->stopAndCheckpoint()
union_stopAndCheckpoint ==
    /\ wPc = "choose" /\ nTransactions < MaxSegs
    /\ \E ub \in [LeavesOf(plan) -> UndefinedSplitsOfLeaves \cup {NoKey}] :
         /\ \A l \in LeavesOf(plan) :
               (leafPc[l] = "run" /\ leafLast[l] = NoKey) <=> ub[l] # NoKey
         /\ IF \E l \in LeavesOf(plan) : ub[l] = Abort
            THEN /\ wPc' = "aborted"
                 /\ UNCHANGED <<scans, ownSplit, nTransactions>>
            ELSE /\ wPc' = "meta"
                 /\ scans' = checkpointOf(cancel_leaves(scans, LeavesOf(plan), ub))
                 /\ ownSplit' = [l \in LeavesOf(plan) |->
                                   IF leafPc[l] = "run" THEN splitOfLeaf(l, ub) ELSE KeyFF]
                 /\ nTransactions' = nTransactions + 1
    /\ scansAdded' = scansAddedAfterStop(scansAdded)
    /\ ops' = <<>>
    /\ leafPc' = [l \in LeavesOf(plan) |-> "dead"]
    /\ UNCHANGED <<leafID, leafBounds, leafLast, firstID>>
    /\ unionFrame

\* innerCheckpoint->stop() of a wrapper that executes the plan again on the
\* same checkpoint
union_stop ==
    /\ wPc = "choose" /\ nTransactions < MaxSegs
    /\ nTransactions' = nTransactions + 1
    /\ scans' = stopUnder(FALSE, NoKey)
    /\ scansAdded' = scansAddedAfterStop(scansAdded)
    /\ ops' = <<>>
    /\ leafPc' = [l \in LeavesOf(plan) |-> "dead"]
    /\ wPc' = "stopped"
    /\ UNCHANGED <<leafID, leafBounds, leafLast, firstID, ownSplit>>
    /\ unionFrame

NextUnion ==
    \/ union_execute
    \/ \E l \in 1..3 : union_doPKScan_reads(l)
    \/ \E l \in 1..3 : union_doPKScan_ends(l)
    \/ union_stopAndCheckpoint
    \/ union_stop

SpecUnion == InitUnion /\ [][NextUnion]_vars

\* the tasks of the tree run, in an execution after the first
reExecuted == wPc = "choose" /\ leafID # <<>> /\ nTransactions >= 1

\* C29 (as stated): every execution of a plan assigns the scan IDs 0, 1, 2, ...
\* to the plan's leaf scans in left-to-right order.
C29_LeftToRightScanIDs ==
    (wPc = "choose" /\ leafID # <<>>) => \A l \in LeavesOf(plan) : leafID[l] = l - 1

\* C29 (amended): every execution of a plan (on a fresh checkpoint, on one that
\* stopAndCheckpoint returned, or again on a stopped one) gives each leaf the
\* scan ID it had in the first execution, the IDs being 0 .. n-1 in the order
\* in which the build runs the subplans' execute; a leaf that resumes reads
\* bounds that begin at the split key it left itself.
C29_SameScanIDsEveryExecution ==
    (wPc = "choose" /\ leafID # <<>>) =>
        /\ leafID = firstID
        /\ {leafID[l] : l \in LeavesOf(plan)} = 0..(Cardinality(LeavesOf(plan)) - 1)
        /\ Len(scans) = Cardinality(LeavesOf(plan))
        /\ \A l \in LeavesOf(plan) : leafBounds[l].begin = ownSplit[l]

\* a third execution in which two leaves resume from different split keys
C29_Witness ==
    /\ reExecuted /\ nTransactions >= 2
    /\ \E l, m \in LeavesOf(plan) :
          /\ leafBounds[l].begin # leafBounds[m].begin
          /\ leafBounds[l].begin \notin {NoKey, KeyFF}

-----------------------------------------------------------------------------
(* Order of the documents through doFilter, doProject and doFlushChanges *)

\* the scan keys of the documents stage k holds, in the order of its queue
heldKeys(k) == [i \in 1..Len(futures[k]) |-> futures[k][i].doc.key]

\* does stage k forward a document with the scan key `key`?
forwards(k, key) ==
    StageKinds(plan)[k] = "filter" => predicate(ScanReturnedContext(key[Len(key)], 0, key))

\* the subsequence of the keys q that stage k forwards
forwardedOf(k, q) == SelectSeq(q, LAMBDA key : forwards(k, key))

orderPreserving(k) == StageKinds(plan)[k] \in {"filter", "project", "flush"}

-----------------------------------------------------------------------------
(* doUnion (lines 603-650) over two input streams.  A subplan sends while
   doUnion is not at its choose (before doUnion starts, or inside
   output.send), or wakes doUnion at its choose. *)

MaxDocsDoUnion == 2

\* a future that is not ready, and Never()
Pending == [pk |-> 0, sid |-> -3, key |-> NoKey]
Never == [pk |-> 0, sid |-> -2, key |-> NoKey]

isReady(f) == f # Pending /\ f # Never

isError(f) == isReady(f) /\ f.sid < 0

DocsA == <<ScanReturnedContext(10, 0, <<10>>), ScanReturnedContext(20, 0, <<20>>)>>
DocsB == <<ScanReturnedContext(10, 1, <<10>>), ScanReturnedContext(30, 1, <<30>>)>>

\* what a subplan sends: some documents, then end_of_stream or another error
StreamsOf(ds) ==
    {SubSeq(ds, 1, n) \o <<e>> : n \in 0..MaxDocsDoUnion, e \in {EndOfStream, TransactionTooOld}}

InitDoUnion ==
    /\ plan = Union(TableScan(1), TableScan(2))
    /\ InitExec /\ InitNoUpdate /\ cancelLog = <<>> /\ InitMetadata /\ InitNoIndexInsert /\ InitNoCounters /\ InitPure
    /\ isReadOnly = TRUE
    /\ argOrder = "plan1"
    /\ leafID = <<>> /\ leafBounds = <<>> /\ leafLast = <<>> /\ leafPc = <<>>
    /\ firstID = <<>> /\ ownSplit = <<>>
    /\ restA \in StreamsOf(DocsA)
    /\ restB \in StreamsOf(DocsB)
    /\ streamA = <<>> /\ streamB = <<>>
    /\ aFuture = Pending /\ bFuture = Pending
    /\ aOpen = TRUE /\ bOpen = TRUE
    /\ unionOutput = <<>>
    /\ unionPc = "start"
    /\ sentA = <<>> /\ sentB = <<>>
    /\ nDocs = 0

doUnionFrame == UNCHANGED <<ctrVars, idxVars, execVars, pureVars, updVars, cancelLog, metaVars, unionVars>>

\* waitAndForward(stream): the future of the next item of the stream
waitAndForward(stream) == IF stream = <<>> THEN Pending ELSE Head(stream)

\* the stream after waitAndForward(stream) was called
taken(stream) == IF stream = <<>> THEN stream ELSE Tail(stream)

atChoose == unionPc = "loop" /\ ~isReady(aFuture) /\ ~isReady(bFuture)

\* the subplan of `a` sends its next item: to the waitAndForward that waits for
\* it, or into the stream
subplanA_sends ==
    /\ restA # <<>>
    /\ unionPc \in {"start", "sendingA", "sendingB"} \/ atChoose
    /\ restA' = Tail(restA)
    /\ IF aFuture = Pending /\ unionPc # "start"
       THEN aFuture' = Head(restA) /\ UNCHANGED streamA
       ELSE streamA' = Append(streamA, Head(restA)) /\ UNCHANGED aFuture
    /\ sentA' = IF Head(restA).sid >= 0 THEN Append(sentA, Head(restA)) ELSE sentA
    /\ UNCHANGED <<restB, streamB, bFuture, aOpen, bOpen, unionOutput, unionPc, sentB>>
    /\ doUnionFrame

subplanB_sends ==
    /\ restB # <<>>
    /\ unionPc \in {"start", "sendingA", "sendingB"} \/ atChoose
    /\ restB' = Tail(restB)
    /\ IF bFuture = Pending /\ unionPc # "start"
       THEN bFuture' = Head(restB) /\ UNCHANGED streamB
       ELSE streamB' = Append(streamB, Head(restB)) /\ UNCHANGED bFuture
    /\ sentB' = IF Head(restB).sid >= 0 THEN Append(sentB, Head(restB)) ELSE sentB
    /\ UNCHANGED <<restA, streamA, aFuture, aOpen, bOpen, unionOutput, unionPc, sentA>>
    /\ doUnionFrame

\* lines 607-610
doUnion_start ==
    /\ unionPc = "start"
    /\ aFuture' = waitAndForward(streamA) /\ streamA' = taken(streamA)
    /\ bFuture' = waitAndForward(streamB) /\ streamB' = taken(streamB)
    /\ unionPc' = "loop"
    /\ UNCHANGED <<restA, restB, aOpen, bOpen, unionOutput, sentA, sentB>>
    /\ doUnionFrame

\* the ASSERT of line 633
assertHolds(fa, fb) == ~isError(fa) \/ ~isError(fb) \/ fa.sid = fb.sid

\* the catch of lines 624-645, e being the error the choose threw
doUnion_catch(e) ==
    IF e # EndOfStream
    THEN /\ unionOutput' = Append(unionOutput, e)
         /\ unionPc' = "failed"
         /\ UNCHANGED <<aFuture, bFuture, aOpen, bOpen>>
    ELSE IF ~assertHolds(aFuture, bFuture)
    THEN /\ unionPc' = "internal_error"
         /\ UNCHANGED <<aFuture, bFuture, aOpen, bOpen, unionOutput>>
    ELSE LET aOpen1 == aOpen /\ ~isError(aFuture)
             bOpen1 == bOpen /\ ~isError(bFuture)
         IN  /\ aFuture' = IF isError(aFuture) THEN Never ELSE aFuture
             /\ bFuture' = IF isError(bFuture) THEN Never ELSE bFuture
             /\ aOpen' = aOpen1
             /\ bOpen' = bOpen1
             /\ IF ~aOpen1 /\ ~bOpen1
                THEN unionOutput' = Append(unionOutput, e) /\ unionPc' = "done"
                ELSE UNCHANGED unionOutput /\ unionPc' = "loop"

\* the choose of lines 614-623 with a ready future: the first when that is ready
doUnion_choose ==
    /\ unionPc = "loop"
    /\ isReady(aFuture) \/ isReady(bFuture)
    /\ LET f == IF isReady(aFuture) THEN aFuture ELSE bFuture
       IN  IF isError(f)
           THEN doUnion_catch(f)
           ELSE /\ unionOutput' = Append(unionOutput, f)
                /\ unionPc' = IF isReady(aFuture) THEN "sendingA" ELSE "sendingB"
                /\ UNCHANGED <<aFuture, bFuture, aOpen, bOpen>>
    /\ UNCHANGED <<restA, restB, streamA, streamB, sentA, sentB>>
    /\ doUnionFrame

\* output.send(val) returns: aFuture = waitAndForward(a) or bFuture = waitAndForward(b)
doUnion_sent ==
    /\ unionPc \in {"sendingA", "sendingB"}
    /\ IF unionPc = "sendingA"
       THEN /\ aFuture' = waitAndForward(streamA) /\ streamA' = taken(streamA)
            /\ UNCHANGED <<bFuture, streamB>>
       ELSE /\ bFuture' = waitAndForward(streamB) /\ streamB' = taken(streamB)
            /\ UNCHANGED <<aFuture, streamA>>
    /\ unionPc' = "loop"
    /\ UNCHANGED <<restA, restB, aOpen, bOpen, unionOutput, sentA, sentB>>
    /\ doUnionFrame

NextDoUnion ==
    \/ subplanA_sends
    \/ subplanB_sends
    \/ doUnion_start
    \/ doUnion_choose
    \/ doUnion_sent

SpecDoUnion == InitDoUnion /\ [][NextDoUnion]_vars


\* the documents of scan `id` among the items q, in their order
docsOfScan(q, id) == SelectSeq(q, LAMBDA d : d.sid = id)

\* the document a ready future of doUnion holds and doUnion has not sent
heldBy(f, sending) == IF isReady(f) /\ ~isError(f) /\ ~sending THEN <<f>> ELSE <<>>

\* the subplans have ended and doUnion has handled everything they sent
bothEnded ==
    /\ restA = <<>> /\ restB = <<>> /\ streamA = <<>> /\ streamB = <<>>
    /\ ~aOpen /\ ~bOpen

\* C31: doUnion forwards every document of both inputs exactly once and in the
\* order of its input (what it sent of an input, followed by what it holds of
\* it, is what that input sent); it sends end_of_stream only after both inputs
\* have ended and all their documents were forwarded; another error of an input
\* that doUnion receives ends its output with that error, and doUnion never
\* ends without an error on its output.
C31_UnionForwardsAll ==
    /\ unionPc \in {"loop", "sendingA", "sendingB", "done"} =>
          /\ docsOfScan(unionOutput, 0) \o heldBy(aFuture, unionPc = "sendingA")
                \o docsOfScan(streamA, 0) = sentA
          /\ docsOfScan(unionOutput, 1) \o heldBy(bFuture, unionPc = "sendingB")
                \o docsOfScan(streamB, 1) = sentB
    /\ (unionOutput # <<>> /\ unionOutput[Len(unionOutput)] = EndOfStream) =>
          /\ bothEnded
          /\ docsOfScan(unionOutput, 0) = sentA /\ docsOfScan(unionOutput, 1) = sentB
    /\ unionPc = "failed" => unionOutput[Len(unionOutput)] = TransactionTooOld
    /\ unionPc # "internal_error"

-----------------------------------------------------------------------------
(* findAndModify, lines 1176-1273: one document, one transaction. *)

\* the first document the subplan of the update operator delivers
firstDelivered == ScanReturnedContext(PKOf(1), 0, <<PKOf(1)>>)

\* C32: findAndModify updates and emits at most one document, the first its
\* subplan delivers; once it has that document (or the end of its input) it
\* passes no segment boundary, so the update, the projection and the commit
\* run in the transaction in which the document was read; it changes
\* transactions only while it has obtained no document
C32_OneDocumentOneTransaction ==
    [][opKind = "findAndModify" =>
         /\ uTransactions' # uTransactions => (~any /\ firstDoc = NoDoc /\ uPc = "loop" /\ updated = <<>>)
         /\ (any \/ uPc # "loop") => uTransactions' = uTransactions
         /\ Len(updated') <= 1 /\ Len(emitted') <= 1
         /\ updated' # <<>> => (any /\ updated' = <<firstDelivered>>)
         /\ (emitted' # <<>> /\ any) => emitted'[1].doc = firstDelivered]_vars

\* findAndModify has passed a segment boundary, then obtained a document,
\* updated and emitted it
C32_Witness ==
    /\ opKind = "findAndModify" /\ uPc = "done"
    /\ uTransactions >= 1 /\ any
    /\ updated = <<firstDelivered>>
    /\ Len(emitted) = 1 /\ emitted[1].doc = firstDelivered

-----------------------------------------------------------------------------
(* doIndexInsert, lines 1388-1427, on the indexes collection of a namespace:
   IndexInsertPlans run one after the other, each on a new checkpoint, so the
   indexes the loop of lines 1401-1408 examines are those earlier plans
   inserted. *)

MaxIndexKeys == 2
MaxIndexNames == 3

\* index descriptors: the "key" and the "name" field of an index document
IndexObjs == [key : 1..MaxIndexKeys, name : 1..MaxIndexNames]

\* index_name_taken
IndexNameTaken == [pk |-> 0, sid |-> -10, key |-> NoKey]

\* the orders in which getIndexesTransactionally can return the indexes of S
Orders(S) ==
    {s \in [1..Cardinality(S) -> S] : \A i, j \in 1..Cardinality(S) : i # j => s[i] # s[j]}

\* the for loop of lines 1401-1408: the first throw, if any
RECURSIVE firstThrow(_, _)
firstThrow(obj, objs) ==
    IF objs = <<>> THEN "none"
    ELSE IF obj.key = Head(objs).key THEN "index_already_exists"
    ELSE IF obj.name = Head(objs).name THEN "index_name_taken"
    ELSE firstThrow(obj, Tail(objs))

InitIndexInsert ==
    /\ plan = Plan("indexInsert", None, None, <<>>, "none")
    /\ nDocs = 0
    /\ InitExec /\ InitNoUpdate /\ cancelLog = <<>> /\ InitMetadata /\ InitPure
    /\ isReadOnly = FALSE
    /\ InitNoUnion /\ InitNoCounters
    /\ indexes = {}
    /\ indexObj = [key |-> 0, name |-> 0]
    /\ indexObjs = <<>>
    /\ iiPc = "idle"
    /\ iiOutput = <<>>
    /\ bumps = 0

idxFrame == UNCHANGED <<ctrVars, mergeVars, unionVars, metaVars, execVars, pureVars, updVars, cancelLog>>

\* IndexInsertPlan::execute on a new checkpoint: doIndexInsert takes its permit
\* and waits for getIndexesTransactionally
IndexInsertPlan_execute ==
    /\ iiPc \in {"idle", "done"}
    /\ \E obj \in IndexObjs : indexObj' = obj
    /\ indexObjs' = <<>>
    /\ iiOutput' = <<>>
    /\ bumps' = 0
    /\ iiPc' = "getIndexes"
    /\ UNCHANGED indexes
    /\ idxFrame

\* doIndexInsert, woken by getIndexesTransactionally: the loop over the
\* existing indexes, and the catch clauses when it throws
doIndexInsert_getIndexes ==
    /\ iiPc = "getIndexes"
    /\ \E objs \in Orders(indexes) :
          /\ indexObjs' = objs
          /\ IF firstThrow(indexObj, objs) = "index_already_exists"
             THEN iiOutput' = <<EndOfStream>> /\ iiPc' = "done"
             ELSE IF firstThrow(indexObj, objs) = "index_name_taken"
             THEN iiOutput' = <<IndexNameTaken>> /\ iiPc' = "done"
             ELSE iiPc' = "insert" /\ UNCHANGED iiOutput
    /\ UNCHANGED <<indexes, indexObj, bumps>>
    /\ idxFrame

\* doIndexInsert, woken by indexInsert->insert: bumpMetadataVersion, send,
\* throw end_of_stream()
doIndexInsert_insert ==
    /\ iiPc = "insert"
    /\ indexes' = indexes \cup {indexObj}
    /\ bumps' = bumps + 1
    /\ iiOutput' = <<IndexDoc, EndOfStream>>
    /\ iiPc' = "done"
    /\ UNCHANGED <<indexObj, indexObjs>>
    /\ idxFrame

NextIndexInsert ==
    \/ IndexInsertPlan_execute
    \/ doIndexInsert_getIndexes
    \/ doIndexInsert_insert

SpecIndexInsert == InitIndexInsert /\ [][NextIndexInsert]_vars

\* the indexes doIndexInsert found in the collection
existingIndexes == {indexObjs[i] : i \in 1..Len(indexObjs)}

\* an existing index has the key specification of the new one
sameKeySpec == \E e \in existingIndexes : e.key = indexObj.key

\* an existing index has the name of the new one and another key specification
nameTaken == \E e \in existingIndexes : e.name = indexObj.name /\ e.key # indexObj.key

\* C33: when doIndexInsert has ended: with the key specification of an existing
\* index nothing is inserted, the version is not bumped and the stream ends
\* without a document; with the name of an existing index of another key
\* specification it fails with index_name_taken and inserts nothing; otherwise
\* one index document is inserted, the version is bumped once and the document
\* is emitted (whatever the order in which the existing indexes are examined)
C33_IndexInsertOutcome ==
    iiPc = "done" =>
        /\ sameKeySpec =>
              iiOutput = <<EndOfStream>> /\ indexes = existingIndexes /\ bumps = 0
        /\ nameTaken =>
              iiOutput = <<IndexNameTaken>> /\ indexes = existingIndexes /\ bumps = 0
        /\ (~sameKeySpec /\ ~nameTaken) =>
              /\ iiOutput = <<IndexDoc, EndOfStream>>
              /\ indexes = existingIndexes \cup {indexObj} /\ indexObj \notin existingIndexes
              /\ bumps = 1

-----------------------------------------------------------------------------
\* C34: for every scan and every stopAndCheckpoint(), the begin of the returned
\* bounds is at least the begin of the stopped checkpoint's bounds and at most
\* 0xFF, also when the scan task is cancelled before it has read a key
C34_BeginNeverMovesBack ==
    [][stopAndCheckpointStep =>
          \A s \in 1..Len(scans) :
              /\ KeyLE(scans[s].begin, scans'[s].begin)
              /\ KeyLE(scans'[s].begin, KeyFF)]_vars

-----------------------------------------------------------------------------
(* doNonIsolatedRW running a segment again on the inner checkpoint it has
   stopped, after a commit that failed (lines 862-865, then line 779). *)

\* the scans of a checkpoint none of whose split keys has been written
unsplit(sc) == [i \in 1..Len(sc) |-> [sc[i] EXCEPT !.split = KeyFF]]

\* the step in which doNonIsolatedRW calls innerCheckpoint->stopAndCheckpoint()
stopAndCheckpointStepRW == wPc = "choose" /\ wPc' \in {"drain", "commit"}

\* C35: when doNonIsolatedRW runs a segment again on the same inner checkpoint
\* after a failed commit, the split keys stopAndCheckpoint() leaves are those the
\* tasks of the re-run write: a scan that completed in the re-run has split
\* 0xFF, and no split key of the failed attempt survives
C35_RerunSplitsOwn ==
    [][(stopAndCheckpointStepRW /\ lastCommit = "failed") =>
          /\ \E ub \in (IF splitIsUndefined THEN UndefinedSplits \ {Abort} ELSE {NoKey}) :
                scans' = cancel_ops(cancel_leaf(unsplit(scans), ub), 1, StageKinds(plan))
          /\ scanCompleted(scanID) => scans'[scanID + 1].split = KeyFF]_vars

-----------------------------------------------------------------------------
(* doNonIsolatedRW when the subplan itself raises a retryable error: the
   inner catch of lines 813-818 rethrows it past stopAndCheckpoint() to the
   catch of line 862, which waits for onError(e) and lets the loop go on. *)

\* a read of the leaf fails with transaction_too_old: the leaf and every stage
\* send the error on and end, waitNext(docs) throws it, onError(e) returns and
\* finished = false; innerCheckpoint is neither stopped nor replaced
doNonIsolatedRW_subPlanError ==
    /\ wPc = "choose" /\ docs = <<>>
    /\ scanPc \in {"waitKV", "waitGet"}
    /\ nTransactions < MaxSegs
    /\ nTransactions' = nTransactions + 1
    /\ scanPc' = "dead"
    /\ kvs' = <<>>
    /\ curKV' = NoKey
    /\ lastKey' = NoKey
    /\ lastPK' = NoKey
    /\ futures' = <<>>
    /\ stStatus' = <<>>
    /\ outLog' = <<>>
    /\ committingDocs' = <<>>
    /\ bufferedDocs' = <<>>
    /\ staged' = <<>>
    /\ finished' = FALSE
    /\ wPc' = "meta"
    /\ UNCHANGED <<ctrVars, idxVars, mergeVars, unionVars, metaVars, pureVars, updVars, cancelLog, plan, nDocs, scans, scansAdded,
                   stateAdded, ops, states, permits, scanID, upperBound, docs, doc, outerPermits, output,
                   committed, lastCommit>>

NextRWError ==
    \/ NextRW
    \/ doNonIsolatedRW_subPlanError

SpecRWError == InitRW /\ [][NextRWError]_vars

\* the step in which a wrapper calls subPlan->execute(innerCheckpoint, tr)
executeStep == wPc \in {"start", "meta"} /\ wPc' = "choose"

\* C36: whenever a wrapper calls execute on its subplan, the inner checkpoint
\* it passes has no registered operation and its scan and state counters are
\* 0, also after a retryable error the subplan itself raised
C36_ExecuteOnCleanCheckpoint ==
    [][executeStep => (ops = <<>> /\ scansAdded = 0 /\ stateAdded = 0)]_vars

-----------------------------------------------------------------------------
\* the permits the subplan's own start takes in the step that executes it
takenAtExecute == IF plan.leaf = "indexInsert" THEN 1 ELSE 0

\* C37: each time a wrapper starts a segment or an attempt, the flow-control
\* lock of the inner checkpoint it executes the subplan on has all its
\* FLOW_CONTROL_LOCK_PERMITS permits free
C37_SegmentStartsWithAllPermits ==
    [][executeStep => permits' = FLOW_CONTROL_LOCK_PERMITS - takenAtExecute]_vars

-----------------------------------------------------------------------------
(* Documents with scanId -1 under a wrapper that calls stopAndCheckpoint():
   a ProjectionPlan over an IndexInsertPlan, whose document is
   ScanReturnedContext(doc, -1, Key()) (line 1419), inside doNonIsolatedRW. *)

\* ASSERT(whichScan >= 0 && whichScan < scans.size()) of splitBound, line 1929
splitBoundAssertion(sc, whichScan) == whichScan >= 0 /\ whichScan < Len(sc)

PlansInsert ==
    {Plan("indexInsert", None, None, <<"project">>, "none"),
     Plan("table", None, None, <<"filter", "project">>, "none"),
     Plan("index", None, None, <<"project">>, "none")}

InitInsert == plan \in PlansInsert /\ InitCommon /\ InitPure /\ isReadOnly = FALSE

NextInsert ==
    \/ NextRW
    \/ doIndexInsert

SpecInsert == InitInsert /\ [][NextInsert]_vars

\* the scan IDs the cancellation handlers pass to splitBound when stop() runs
\* now with boundsWanted true
splitBoundCalls ==
    UNION {{futures[k][i].doc.sid : i \in 1..Len(futures[k])} :
              k \in {j \in 1..Len(futures) :
                        /\ stStatus[j] \in {"run", "drain"}
                        /\ StageKinds(plan)[j] \in {"filter", "dedup", "project"}}} \cup
    (IF scanPc \in {"waitKV", "take"} /\ ~isPointLookup(plan) /\ plan.leaf # "indexInsert"
     THEN {scanID} ELSE {})


\* C38: every splitBound(id) a cancellation handler calls has
\* 0 <= id < number of scans of the checkpoint being stopped, also for held
\* documents whose scanId is -1
C38_SplitBoundInRange ==
    wPc = "choose" => \A id \in splitBoundCalls : splitBoundAssertion(scans, id)

-----------------------------------------------------------------------------
(* Two resumable counters on one checkpoint: SkipPlan over UpdatePlan.
   SkipPlan::execute (1381-1386) evaluates subPlan->execute first, so doUpdate
   calls getIntState(0) (line 1095) before doSkip calls getIntState(skip)
   (line 1361).  Each keeps the int64_t& it got.  `states` is a vector
   (reserve, emplace_back, back): an emplace_back that grows it can move its
   elements, and a reference taken before then dangles. *)

InitCounters ==
    /\ plan = Plan("table", None, None, <<"update", "skip">>, "none")
    /\ InitExec /\ cancelLog = <<>> /\ InitMetadata /\ InitNoIndexInsert /\ InitPure
    /\ InitNoUnion
    /\ isReadOnly = FALSE
    /\ opKind = "update"
    /\ limit \in 1..2
    /\ upsertOp = FALSE
    /\ projectNew = FALSE
    /\ input = <<>>
    /\ uPc = "idle"
    /\ count = 0
    /\ uFutures = <<>>
    /\ firstDoc = NoDoc
    /\ any = FALSE
    /\ proj = "none"
    /\ updated = <<>>
    /\ inserted = 0
    /\ uOutput = <<>>
    /\ uPermits = FLOW_CONTROL_LOCK_PERMITS
    /\ uHeld = 0
    /\ uTransactions = 0
    /\ refs = <<>>
    /\ nFed = 0
    /\ nSkipped = 0
    /\ skipPc = "idle"

countersFrame ==
    UNCHANGED <<idxVars, mergeVars, unionVars, metaVars, pureVars, cancelLog, txnVars, plan, nDocs,
                scans, scansAdded, ops, permits, scanPc, scanID, kvs, curKV, lastKey, lastPK,
                upperBound, futures, stStatus, docs, outLog, doc, outerPermits, output,
                opKind, limit, upsertOp, projectNew, input, count, uFutures, firstDoc, any,
                proj, updated, inserted, uOutput, uPermits, uHeld, uTransactions>>

\* the references the two calls return: states.back() at the time of each call;
\* the first one dangles (0) if the second call's emplace_back moved the vector
refsOf(st1, st2) ==
    IF Len(st2) > Len(st1)
    THEN {<<Len(st1), Len(st2)>>, <<0, Len(st2)>>}
    ELSE {<<Len(st1), Len(st2)>>}

\* subPlan->execute(innerCheckpoint, dtr) of a wrapper: doUpdate's
\* getIntState(0), then doSkip's getIntState(skip) and its first test of
\* leftToSkip
counters_execute ==
    /\ wPc \in {"start", "meta"}
    /\ LET st1 == getIntState(states, stateAdded, 0)
           st2 == getIntState(st1, stateAdded + 1, SkipCount)
       IN  /\ states' = st2
           /\ refs' \in refsOf(st1, st2)
           /\ skipPc' = IF st2[Len(st2)].split # 0 THEN "skipping" ELSE "forwarding"
    /\ stateAdded' = stateAdded + 2
    /\ uPc' = "loop"
    /\ nFed' = 0
    /\ nSkipped' = 0
    /\ wPc' = "choose"
    /\ UNCHANGED nTransactions
    /\ countersFrame

\* doUpdate, lines 1100-1104: a document arrives, count += 1, break at the
\* limit; through a dangling reference the write is lost and the test reads
\* anything
counters_doUpdate_waitNext ==
    /\ wPc = "choose" /\ uPc = "loop" /\ nFed < nDocs
    /\ nFed' = nFed + 1
    /\ IF refs[1] = 0
       THEN /\ uPc' \in {"loop", "drain"}
            /\ UNCHANGED states
       ELSE /\ states' = [states EXCEPT ![refs[1]].split = @ + 1]
            /\ uPc' = IF states[refs[1]].split + 1 >= limit THEN "drain" ELSE "loop"
    /\ UNCHANGED <<refs, nSkipped, skipPc, stateAdded, wPc, nTransactions>>
    /\ countersFrame

\* doSkip, lines 1365-1373: a document doUpdate has sent arrives; in the while
\* loop --leftToSkip and the test again, in the loop after it output.send
counters_doSkip_waitNext ==
    /\ wPc = "choose" /\ nSkipped < nFed
    /\ nSkipped' = nSkipped + 1
    /\ IF skipPc = "skipping"
       THEN /\ states' = [states EXCEPT ![refs[2]].split = @ - 1]
            /\ skipPc' = IF states[refs[2]].split - 1 # 0 THEN "skipping" ELSE "forwarding"
       ELSE UNCHANGED <<states, skipPc>>
    /\ UNCHANGED <<refs, nFed, uPc, stateAdded, wPc, nTransactions>>
    /\ countersFrame

\* the wrapper's timeout: innerCheckpoint = innerCheckpoint->stopAndCheckpoint()
counters_stopAndCheckpoint ==
    /\ wPc = "choose" /\ nTransactions < MaxSegs
    /\ nTransactions' = nTransactions + 1
    /\ states' = statesCheckpoint(states)
    /\ stateAdded' = 0
    /\ refs' = <<>>
    /\ uPc' = "idle"
    /\ skipPc' = "idle"
    /\ wPc' = "meta"
    /\ UNCHANGED <<nFed, nSkipped>>
    /\ countersFrame

NextCounters ==
    \/ counters_execute
    \/ counters_doUpdate_waitNext
    \/ counters_doSkip_waitNext
    \/ counters_stopAndCheckpoint

SpecCounters == InitCounters /\ [][NextCounters]_vars

\* C39: with two resumable counters on a checkpoint, the k-th getIntState
\* call of an execution returns the k-th counter, on a new checkpoint and on
\* one stopAndCheckpoint() returned: no counter is shared or overwritten
C39_KthCallKthCounter ==
    [][executeStep => refs' = <<1, 2>>]_vars

-----------------------------------------------------------------------------
(* UpdatePlan with a limit under a wrapper that segments the execution: the
   timeout of doNonIsolatedRW (823-831) stops the checkpoint while doUpdate
   waits for a document or for an update. *)

\* doUpdate is cancelled with splitBoundWanted(): the handler (1126-1131)
\* writes the scanKey of every held document, the first one last, so the next
\* execution scans them again; rest->states holds count as it is (line 1880);
\* the documents sent already are drained and committed, and the subplan runs
\* again on the new checkpoint (new lock, getIntState returns count)
doUpdate_timeout ==
    /\ opKind = "update"
    /\ \/ uPc = "loop"
       \/ uPc = "drain" /\ uFutures # <<>>
    /\ uTransactions < MaxSegs
    /\ uTransactions' = uTransactions + 1
    /\ input' = uFutures \o input
    /\ uFutures' = <<>>
    /\ uPc' = "loop"
    /\ uPermits' = FLOW_CONTROL_LOCK_PERMITS
    /\ uHeld' = 0
    /\ UNCHANGED <<ctrVars, idxVars, mergeVars, unionVars, metaVars, execVars, pureVars, cancelLog,
                   updConfig, count, firstDoc, any, proj, updated, inserted, uOutput>>

NextUpdateSegments == NextUpdate \/ doUpdate_timeout

SpecUpdateSegments == InitUpdate /\ [][NextUpdateSegments]_vars

\* the documents of the subplan the operator has sent, over all segments
emittedScanned == SelectSeq(emitted, LAMBDA e : e.doc # InsertedDoc)

\* C40: an UpdatePlan with limit L >= 1 over N matching documents, run in
\* segments, has emitted min(L, N) documents over all segments when it ends: a
\* document received but not forwarded when a segment stopped counts once
C40_LimitAcrossSegments ==
    (opKind = "update" /\ limit >= 1 /\ uPc = "done") =>
        Len(emittedScanned) = (IF limit <= nDocs THEN limit ELSE nDocs)

====
